---- MODULE Spec2Model ----
(***************************************************************************)
(* A model of the lumi toolchain: the lumi_asm two-pass assembler, the     *)
(* container format and the lumi_vm_2 fetch-decode-execute interpreter.    *)
(*                                                                         *)
(* Conventions of the model                                                *)
(*  - a byte vector is a sequence of 0..255; the source indexes from 0,    *)
(*    the model's sequences from 1, so program[pc] is v.program[pc + 1];   *)
(*  - an i32 is an integer of I32Min..I32Max;                              *)
(*  - the model checker's integers are 32 bits wide, so a usize (64 bit)   *)
(*    or u32 value u is held as the representative s with u = s mod 2^64   *)
(*    (2^32): a negative s stands for the huge value a negative i32        *)
(*    becomes under `as usize` / `as u32`;                                 *)
(*  - an f64 is held as an exact fraction <<n, d>>, d > 0, with d = 0 for  *)
(*    the infinities and NaN; rounding of f64 arithmetic is not modelled;  *)
(*  - a Rust panic (index out of bounds, unwrap on None, division by zero) *)
(*    is the status Panic: the run is aborted and run() never returns.     *)
(***************************************************************************)
EXTENDS Integers, Sequences, FiniteSets, TLC

VARIABLES
  vm,               \* the VirtualMachine value (a record of its fields)
  is_done,          \* run(): the local `is_done`, NoCode while the loop runs
  run_pc,           \* run(): where the call is: "unloaded", "idle", "loop", "returned", "panicked"
                    \* (and, in the legacy run(), "prompt" and "exited")
  in_step_mode,     \* the legacy run(): the local `in_step_mode`
  returned,         \* run(): the event log handed back to the caller
  overflow_checks,  \* the build: TRUE for a debug build (overflow panics), FALSE for release
  asm,              \* the Assembler value (a record of its fields)
  source,           \* assemble(): the parse tree of the source text (top-level pairs)
  asm_pc,           \* assemble(): where the call is: "none", "idle", "returned"
  asm_result,       \* assemble(): the returned Result
  asm_again,        \* assemble(): the Result of a second call on the same Assembler
  hist              \* observation of the run: what each executed instruction did

vars == <<vm, is_done, run_pc, in_step_mode, returned, overflow_checks, asm, source,
          asm_pc, asm_result, asm_again, hist>>

vmVars == <<vm, is_done, run_pc, in_step_mode, returned, hist>>
asmVars == <<asm, source, asm_pc, asm_result, asm_again>>

----------------------------------------------------------------------------
(* Integer widths *)

I32Max == 2147483646 + 1
I32Min == -2147483647 - 1

Abs(x) == IF x < 0 THEN -x ELSE x

Pow2(n) == [i \in 0..30 |-> CASE i = 0 -> 1 [] i = 1 -> 2 [] i = 2 -> 4 [] i = 3 -> 8
              [] i = 4 -> 16 [] i = 5 -> 32 [] i = 6 -> 64 [] i = 7 -> 128
              [] i = 8 -> 256 [] i = 9 -> 512 [] i = 10 -> 1024 [] i = 11 -> 2048
              [] i = 12 -> 4096 [] i = 13 -> 8192 [] i = 14 -> 16384
              [] i = 15 -> 32768 [] i = 16 -> 65536 [] i = 17 -> 131072
              [] i = 18 -> 262144 [] i = 19 -> 524288 [] i = 20 -> 1048576
              [] i = 21 -> 2097152 [] i = 22 -> 4194304 [] i = 23 -> 8388608
              [] i = 24 -> 16777216 [] i = 25 -> 33554432 [] i = 26 -> 67108864
              [] i = 27 -> 134217728 [] i = 28 -> 268435456
              [] i = 29 -> 536870912 [] OTHER -> 1073741824][n]

(* i32 addition, subtraction and multiplication: whether the exact result  *)
(* leaves the i32 range, and the two's-complement wrapped result.          *)
AddOverflows(a, b) == (b > 0 /\ a > I32Max - b) \/ (b < 0 /\ a < I32Min - b)

WrappingAdd(a, b) ==
  IF b > 0 /\ a > I32Max - b THEN (a + I32Min) + (b + I32Min)
  ELSE IF b < 0 /\ a < I32Min - b THEN (a - I32Min) + (b - I32Min)
  ELSE a + b

SubOverflows(a, b) == (b < 0 /\ a > I32Max + b) \/ (b > 0 /\ a < I32Min + b)

WrappingSub(a, b) ==
  IF b < 0 /\ a > I32Max + b THEN (a + I32Min) - (b - I32Min)
  ELSE IF b > 0 /\ a < I32Min + b THEN (a - I32Min) - (b + I32Min)
  ELSE a - b

\* x * y mod 2^16 for x, y in 0..65535, without leaving 32 bits
MulMod16(x, y) == ((x % 256) * y + (((x \div 256) * y) % 256) * 256) % 65536

\* the i32 whose bits are hi16 : lo16
FromHalves(hi, lo) == IF hi >= 32768 THEN (hi - 65536) * 65536 + lo ELSE hi * 65536 + lo

Lo16(a) == a % 65536
Hi16(a) == ((a - (a % 65536)) \div 65536) % 65536

WrappingMul(a, b) ==
  LET al == Lo16(a)  ah == Hi16(a)
      bl == Lo16(b)  bh == Hi16(b)
      x0 == (al % 256) * bl
      x1 == (al \div 256) * bl
      low == (x1 % 256) * 256 + x0
      lo16 == low % 65536
      carry == (low \div 65536) + (x1 \div 256)
      hi16 == (carry + MulMod16(ah, bl) + MulMod16(al, bh)) % 65536
  IN FromHalves(hi16, lo16)

MulOverflows(a, b) ==
  /\ a # 0 /\ b # 0
  /\ \/ a = I32Min /\ b # 1
     \/ b = I32Min /\ a # 1
     \/ /\ a # I32Min /\ b # I32Min
        /\ IF (a > 0) = (b > 0) THEN Abs(b) > I32Max \div Abs(a)
           ELSE Abs(b) > (I32Max \div Abs(a)) + (IF (I32Max % Abs(a)) + 1 = Abs(a) THEN 1 ELSE 0)

\* `/` and `%` of i32 round toward zero; b # 0, and not i32::MIN / -1.
\* Computed from the floored \div and % so that no step leaves the i32 range
TruncDivPos(a, b) ==
  IF a >= 0 \/ a % b = 0 THEN a \div b ELSE (a \div b) + 1
TruncDiv(a, b) ==
  IF b > 0 THEN TruncDivPos(a, b)
  ELSE IF b = I32Min THEN (IF a = I32Min THEN 1 ELSE 0)
  ELSE -TruncDivPos(a, -b)
TruncRem(a, b) == a - b * TruncDiv(a, b)

\* a u32 is held as <<its high 16 bits, its low 16 bits>>; `x as u32` for an
\* i32 keeps the bit pattern, so a negative x becomes 2^32 - |x|
U32(hi, lo) == <<hi, lo>>
I32AsU32(x) == U32((x \div 65536) % 65536, x % 65536)

\* i32 << k and i32 >> k (arithmetic) for k in 0..31
ShlI32(x, k) ==
  IF k = 0 THEN x
  ELSE IF k = 31 THEN (IF x % 2 = 1 THEN I32Min ELSE 0)
  ELSE LET m == Pow2(31 - k)
           low == x % m
           sign == (x \div m) % 2
       IN IF sign = 1 THEN (low - m) * Pow2(k) ELSE low * Pow2(k)

ShrI32(x, k) == IF k = 31 THEN (IF x < 0 THEN -1 ELSE 0) ELSE x \div Pow2(k)

RECURSIVE Bitwise(_, _, _, _)
Bitwise(f, a, b, n) ==
  IF n = 0 THEN -f[a % 2, b % 2]
  ELSE f[a % 2, b % 2] + 2 * Bitwise(f, a \div 2, b \div 2, n - 1)

AndBit == [x \in 0..1, y \in 0..1 |-> IF x = 1 /\ y = 1 THEN 1 ELSE 0]
OrBit  == [x \in 0..1, y \in 0..1 |-> IF x = 1 \/ y = 1 THEN 1 ELSE 0]
XorBit == [x \in 0..1, y \in 0..1 |-> IF x # y THEN 1 ELSE 0]

\* the four little-endian bytes of an i32 (write_i32::<LittleEndian>) and back
I32ToLE(x) ==
  LET lo == Lo16(x)  hi == Hi16(x)
  IN <<lo % 256, lo \div 256, hi % 256, hi \div 256>>

LEToI32(b) == FromHalves(b[4] * 256 + b[3], b[2] * 256 + b[1])

----------------------------------------------------------------------------
(* f64 values as exact fractions *)

F(n) == <<n, 1>>
FNaN == <<0, 0>>
FIsNaN(x) == x[2] = 0 /\ x[1] = 0
FIsInf(x) == x[2] = 0 /\ x[1] # 0
Sgn(n) == IF n > 0 THEN 1 ELSE IF n < 0 THEN -1 ELSE 0

FAdd(x, y) ==
  IF FIsNaN(x) \/ FIsNaN(y) THEN FNaN
  ELSE IF FIsInf(x) /\ FIsInf(y) THEN (IF x[1] = y[1] THEN x ELSE FNaN)
  ELSE IF FIsInf(x) THEN x
  ELSE IF FIsInf(y) THEN y
  ELSE <<x[1] * y[2] + y[1] * x[2], x[2] * y[2]>>

FNeg(x) == <<-x[1], x[2]>>
FSub(x, y) == FAdd(x, FNeg(y))

FMul(x, y) ==
  IF FIsNaN(x) \/ FIsNaN(y) THEN FNaN
  ELSE IF FIsInf(x) \/ FIsInf(y) THEN <<Sgn(x[1]) * Sgn(y[1]), 0>>
  ELSE <<x[1] * y[1], x[2] * y[2]>>

\* IEEE division: x / 0 is an infinity (NaN for 0 / 0), never a panic
FDiv(x, y) ==
  IF FIsNaN(x) \/ FIsNaN(y) THEN FNaN
  ELSE IF FIsInf(x) THEN (IF FIsInf(y) THEN FNaN ELSE <<x[1] * (IF y[1] < 0 THEN -1 ELSE 1), 0>>)
  ELSE IF FIsInf(y) THEN F(0)
  ELSE IF y[1] = 0 THEN <<Sgn(x[1]), 0>>
  ELSE <<x[1] * y[2] * Sgn(y[1]), x[2] * Abs(y[1])>>

FLess(x, y) ==
  IF FIsNaN(x) \/ FIsNaN(y) THEN FALSE
  ELSE IF FIsInf(x) THEN x[1] < 0 /\ ~(FIsInf(y) /\ y[1] < 0)
  ELSE IF FIsInf(y) THEN y[1] > 0
  ELSE x[1] * y[2] < y[1] * x[2]

FEq(x, y) ==
  IF FIsNaN(x) \/ FIsNaN(y) THEN FALSE
  ELSE IF FIsInf(x) \/ FIsInf(y) THEN x = y
  ELSE x[1] * y[2] = y[1] * x[2]

\* (x % y) as u32: the truncated float modulus, cast saturating (NaN and
\* negatives become 0), as the integer it is
FRemAsU32(x, y) ==
  IF FIsNaN(x) \/ FIsNaN(y) \/ FIsInf(x) THEN 0
  ELSE IF FIsInf(y) THEN (IF x[1] < 0 THEN 0 ELSE x[1] \div x[2])
  ELSE IF y[1] = 0 THEN 0
  ELSE LET n == Abs(x[1]) * y[2]
           m == Abs(y[1]) * x[2]
           r == n % m
       IN IF x[1] < 0 THEN 0 ELSE r \div (x[2] * y[2])

----------------------------------------------------------------------------
(* The instruction-set catalog (lumi_asm/src/instruction.rs) *)

\* OPCODE_METADATA: byte code, then the three operand slots
\* (R register, FR float register, I integer immediate, FI float immediate,
\*  A address, E empty)
OPCODE_METADATA == <<
  <<"LOAD", 0, <<"R", "I", "E">> >>,     <<"ADD", 1, <<"R", "R", "R">> >>,
  <<"SUB", 2, <<"R", "R", "R">> >>,      <<"MUL", 3, <<"R", "R", "R">> >>,
  <<"DIV", 4, <<"R", "R", "R">> >>,      <<"HLT", 5, <<"E", "E", "E">> >>,
  <<"JMP", 6, <<"R", "E", "E">> >>,      <<"JMPF", 7, <<"R", "E", "E">> >>,
  <<"JMPB", 8, <<"R", "E", "E">> >>,     <<"EQ", 9, <<"R", "R", "E">> >>,
  <<"NEQ", 10, <<"R", "R", "E">> >>,     <<"GT", 11, <<"R", "R", "E">> >>,
  <<"LT", 12, <<"R", "R", "E">> >>,      <<"GTE", 13, <<"R", "R", "E">> >>,
  <<"LTE", 14, <<"R", "R", "E">> >>,     <<"JMPE", 15, <<"R", "E", "E">> >>,
  <<"DJMPE", 16, <<"A", "E", "E">> >>,   <<"ALOC", 17, <<"R", "E", "E">> >>,
  <<"INC", 18, <<"R", "E", "E">> >>,     <<"DEC", 19, <<"R", "E", "E">> >>,
  <<"NOP", 20, <<"E", "E", "E">> >>,     <<"PRTS", 21, <<"A", "E", "E">> >>,
  <<"LOADF64", 22, <<"FR", "FI", "E">> >>, <<"ADDF64", 23, <<"FR", "FR", "FR">> >>,
  <<"SUBF64", 24, <<"FR", "FR", "FR">> >>, <<"MULF64", 25, <<"FR", "FR", "FR">> >>,
  <<"DIVF64", 26, <<"FR", "FR", "FR">> >>, <<"EQF64", 27, <<"FR", "FR", "E">> >>,
  <<"NEQF64", 28, <<"FR", "FR", "E">> >>,  <<"GTF64", 29, <<"FR", "FR", "E">> >>,
  <<"GTEF64", 30, <<"FR", "FR", "E">> >>,  <<"LTF64", 31, <<"FR", "FR", "E">> >>,
  <<"LTEF64", 32, <<"FR", "FR", "E">> >>,  <<"SHL", 33, <<"R", "I", "E">> >>,
  <<"SHR", 34, <<"R", "I", "E">> >>,     <<"AND", 35, <<"R", "R", "R">> >>,
  <<"OR", 36, <<"R", "R", "R">> >>,      <<"XOR", 37, <<"R", "R", "R">> >>,
  <<"NOT", 38, <<"R", "R", "E">> >>,     <<"LUI", 39, <<"R", "I", "I">> >>,
  <<"CLOOP", 40, <<"I", "E", "E">> >>,   <<"LOOP", 41, <<"A", "E", "E">> >>,
  <<"LOADM", 42, <<"R", "R", "E">> >>,   <<"SETM", 43, <<"R", "R", "E">> >>,
  <<"PUSH", 44, <<"R", "E", "E">> >>,    <<"POP", 45, <<"R", "E", "E">> >>,
  <<"CALL", 46, <<"A", "E", "E">> >>,    <<"RET", 47, <<"E", "E", "E">> >>,
  <<"DJMP", 48, <<"A", "E", "E">> >>,    <<"BKPT", 49, <<"E", "E", "E">> >>,
  <<"IGL", 100, <<"E", "E", "E">> >> >>

Opcodes == {OPCODE_METADATA[i][1] : i \in DOMAIN OPCODE_METADATA}
CatalogBytes == {OPCODE_METADATA[i][2] : i \in DOMAIN OPCODE_METADATA}

\* Opcode::from_byte: Some(opcode) or None (here "None")
from_byte(byte) ==
  IF byte \in CatalogBytes
  THEN OPCODE_METADATA[CHOOSE i \in DOMAIN OPCODE_METADATA : OPCODE_METADATA[i][2] = byte][1]
  ELSE "None"

\* impl From<u8> for Opcode: from_byte(value).or(Some(IGL))
OpcodeFromU8(value) == IF from_byte(value) = "None" THEN "IGL" ELSE from_byte(value)

\* impl From<Opcode> for u8
U8FromOpcode(op) ==
  OPCODE_METADATA[CHOOSE i \in DOMAIN OPCODE_METADATA : OPCODE_METADATA[i][1] = op][2]

\* str::to_uppercase on the names the model spells: each name that has a
\* lower-case letter, with its upper-case form; every other name is its own
\* upper-case form
CasePairs == {
    <<"load", "LOAD">>, <<"Load", "LOAD">>, <<"add", "ADD">>, <<"Add", "ADD">>,
    <<"sub", "SUB">>, <<"Sub", "SUB">>, <<"mul", "MUL">>, <<"Mul", "MUL">>,
    <<"div", "DIV">>, <<"Div", "DIV">>, <<"hlt", "HLT">>, <<"Hlt", "HLT">>,
    <<"jmp", "JMP">>, <<"Jmp", "JMP">>, <<"jmpf", "JMPF">>, <<"Jmpf", "JMPF">>,
    <<"jmpb", "JMPB">>, <<"Jmpb", "JMPB">>, <<"eq", "EQ">>, <<"Eq", "EQ">>,
    <<"neq", "NEQ">>, <<"Neq", "NEQ">>, <<"gt", "GT">>, <<"Gt", "GT">>,
    <<"lt", "LT">>, <<"Lt", "LT">>, <<"gte", "GTE">>, <<"Gte", "GTE">>,
    <<"lte", "LTE">>, <<"Lte", "LTE">>, <<"jmpe", "JMPE">>, <<"Jmpe", "JMPE">>,
    <<"djmpe", "DJMPE">>, <<"Djmpe", "DJMPE">>, <<"aloc", "ALOC">>, <<"Aloc", "ALOC">>,
    <<"inc", "INC">>, <<"Inc", "INC">>, <<"dec", "DEC">>, <<"Dec", "DEC">>,
    <<"nop", "NOP">>, <<"Nop", "NOP">>, <<"prts", "PRTS">>, <<"Prts", "PRTS">>,
    <<"loadf64", "LOADF64">>, <<"Loadf64", "LOADF64">>, <<"addf64", "ADDF64">>, <<"Addf64", "ADDF64">>,
    <<"subf64", "SUBF64">>, <<"Subf64", "SUBF64">>, <<"mulf64", "MULF64">>, <<"Mulf64", "MULF64">>,
    <<"divf64", "DIVF64">>, <<"Divf64", "DIVF64">>, <<"eqf64", "EQF64">>, <<"Eqf64", "EQF64">>,
    <<"neqf64", "NEQF64">>, <<"Neqf64", "NEQF64">>, <<"gtf64", "GTF64">>, <<"Gtf64", "GTF64">>,
    <<"gtef64", "GTEF64">>, <<"Gtef64", "GTEF64">>, <<"ltf64", "LTF64">>, <<"Ltf64", "LTF64">>,
    <<"ltef64", "LTEF64">>, <<"Ltef64", "LTEF64">>, <<"shl", "SHL">>, <<"Shl", "SHL">>,
    <<"shr", "SHR">>, <<"Shr", "SHR">>, <<"and", "AND">>, <<"And", "AND">>,
    <<"or", "OR">>, <<"Or", "OR">>, <<"xor", "XOR">>, <<"Xor", "XOR">>,
    <<"not", "NOT">>, <<"Not", "NOT">>, <<"lui", "LUI">>, <<"Lui", "LUI">>,
    <<"cloop", "CLOOP">>, <<"Cloop", "CLOOP">>, <<"loop", "LOOP">>, <<"Loop", "LOOP">>,
    <<"loadm", "LOADM">>, <<"Loadm", "LOADM">>, <<"setm", "SETM">>, <<"Setm", "SETM">>,
    <<"push", "PUSH">>, <<"Push", "PUSH">>, <<"pop", "POP">>, <<"Pop", "POP">>,
    <<"call", "CALL">>, <<"Call", "CALL">>, <<"ret", "RET">>, <<"Ret", "RET">>,
    <<"djmp", "DJMP">>, <<"Djmp", "DJMP">>, <<"bkpt", "BKPT">>, <<"Bkpt", "BKPT">>,
    <<"igl", "IGL">>, <<"Igl", "IGL">>, <<"illegal", "ILLEGAL">>, <<"Illegal", "ILLEGAL">>,
    <<"jpmb", "JPMB">>, <<"Jpmb", "JPMB">>, <<"loadx", "LOADX">>, <<"Loadx", "LOADX">> }
CaseDomain == {p[1] : p \in CasePairs}
to_uppercase(s) ==
  IF s \in CaseDomain THEN (CHOOSE p \in CasePairs : p[1] = s)[2] ELSE s

\* STR_TO_OPCODE_MAP: str_symbol -> opcode (the str_symbol of an opcode is
\* its name)
STR_TO_OPCODE_MAP == [name \in Opcodes |-> name]

\* Opcode::from_str: the map's entry for the upper-cased name, and From<&str>
from_str(s) ==
  IF to_uppercase(s) \in DOMAIN STR_TO_OPCODE_MAP
  THEN STR_TO_OPCODE_MAP[to_uppercase(s)] ELSE "None"
OpcodeFromStr(s) == IF from_str(s) = "None" THEN "IGL" ELSE from_str(s)

(* The legacy catalog (src/instruction.rs) *)

\* the string literal of each arm of the match in impl From<&str> for Opcode
\* (the arm of JMPB is spelled "JPMB"; IGL has no arm of its own)
LegacyArm(opcode) == IF opcode = "JMPB" THEN "JPMB" ELSE opcode
LegacyArms == {<<LegacyArm(opcode), opcode>> : opcode \in Opcodes \ {"IGL"}}

\* impl From<&str> for Opcode: the arm that matches the upper-cased name, or
\* the `_` arm
legacy_from_str(value) ==
  LET uppercase == to_uppercase(value)
  IN IF \E arm \in LegacyArms : arm[1] = uppercase
     THEN (CHOOSE arm \in LegacyArms : arm[1] = uppercase)[2]
     ELSE "IGL"

\* impl From<u8> for Opcode: the arms 0..49, or the `_` arm
legacy_from_u8(value) == IF value \in 0..49 THEN OpcodeFromU8(value) ELSE "IGL"

----------------------------------------------------------------------------
(* The container header (lumi_asm/src/header_utils.rs) *)

LUMI_HEADER_PREFIX == <<76, 85, 77, 73>>
LUMI_HEADER_LENGTH == 64
PadByte == 17

RECURSIVE Repeat(_, _)
Repeat(b, n) == IF n <= 0 THEN <<>> ELSE <<b>> \o Repeat(b, n - 1)

\* a faulty get_lumi_header that writes the length big-endian
header_length_big_endian(read_only_data_length) ==
  LUMI_HEADER_PREFIX
    \o Repeat(PadByte, (LUMI_HEADER_LENGTH + 1) - Len(LUMI_HEADER_PREFIX))
    \o <<0, 0, read_only_data_length \div 256, read_only_data_length % 256>>

\* get_lumi_header: the prefix, 0x11 while header.len() <= 64, then the
\* length of the read-only data as a little-endian u32
get_lumi_header(read_only_data_length) ==
  LUMI_HEADER_PREFIX
    \o Repeat(PadByte, (LUMI_HEADER_LENGTH + 1) - Len(LUMI_HEADER_PREFIX))
    \o I32ToLE(read_only_data_length)

\* a faulty verify_header that compares three bytes of the magic
verify_header_three_bytes(program) ==
  IF Len(program) < 4 THEN "Panic"
  ELSE IF SubSeq(program, 1, 3) # SubSeq(LUMI_HEADER_PREFIX, 1, 3) THEN "false"
  ELSE "true"

\* verify_header: program[0..4] != LUMI_HEADER_PREFIX; the slice panics on a
\* program shorter than four bytes
verify_header(program) ==
  IF Len(program) < 4 THEN "Panic"
  ELSE IF SubSeq(program, 1, 4) # LUMI_HEADER_PREFIX THEN "false"
  ELSE "true"
----------------------------------------------------------------------------
(* The interpreter (lumi_vm_2/src/vm) *)

REGISTER_COUNT == 32

\* ExecutionStatus, plus Panic for a handler that aborts the thread
Continue == [kind |-> "Continue", code |-> 0]
BreakpointHit == [kind |-> "BreakpointHit", code |-> 0]
Crash(code) == [kind |-> "Crash", code |-> code]
Done(code) == [kind |-> "Done", code |-> code]
Panicked == [kind |-> "Panic", code |-> 0]

\* VMEvent: the event type and its exit code (0 where the type carries none)
Event(type, code) == [event_type |-> type, exit_code |-> code]

\* what a handler hands back: the machine it leaves and its status.  A
\* panicking handler leaves the machine as it found it: nothing observes a
\* machine after a panic.
Ret(v, status) == [vm |-> v, status |-> status]
Panic(v) == Ret(v, Panicked)

\* VirtualMachine::new
new ==
  [ registers |-> [i \in 0..(REGISTER_COUNT - 1) |-> 0],
    float_registers |-> [i \in 0..(REGISTER_COUNT - 1) |-> F(0)],
    pc |-> 0,
    program |-> <<>>,
    heap |-> <<>>,
    stack |-> <<>>,
    remainder |-> I32AsU32(0),
    equal_flag |-> FALSE,
    events |-> <<>>,
    ro_data |-> <<>>,
    loop_counter |-> 0,
    sp |-> 0,
    bp |-> 0,
    watch_variables |-> <<>>,
    instruction_table |-> {},
    printed |-> <<>>,       \* what PRTS handed to the log sink (info!)
    watch_log |-> <<>> ]    \* the "Watched variable changed" lines logged

\* initialize_instruction_table: the opcodes a handler is inserted for
initialize_instruction_table(v) ==
  [v EXCEPT !.instruction_table =
     { "LOAD", "LOADF64", "ALOC", "LUI", "SETM", "LOADM", "PUSH", "POP",
       "ADD", "SUB", "MUL", "DIV",
       "ADDF64", "SUBF64", "MULF64", "DIVF64",
       "INC", "DEC",
       "JMP", "JMPF", "JMPB", "JMPE", "DJMP", "DJMPE", "LOOP", "CLOOP",
       "EQ", "NEQ", "GT", "LT", "GTE", "LTE",
       "EQF64", "NEQF64", "GTF64", "LTF64", "GTEF64", "LTEF64",
       "SHL", "SHR",
       "AND", "OR", "XOR", "NOT",
       "PRTS", "CALL", "RET",
       "NOP", "HLT", "IGL" }]

\* VirtualMachine::initialize
initialize == initialize_instruction_table(new)

\* a usize held as its representative: negative stands for 2^64 - |s|
Huge(s) == s < 0
UsizeGe(a, len) == Huge(a) \/ a >= len

\* next_8_bits / next_16_bits / next_24_bits read program[pc ..]; they panic
\* when the index is past the end.  HasBytes says n more bytes can be read,
\* At(v, k) is program[pc + k], Adv moves pc.
HasBytes(v, n) == ~Huge(v.pc) /\ v.pc + n <= Len(v.program)
At(v, k) == v.program[v.pc + 1 + k]
U16At(v, k) == At(v, k) + At(v, k + 1) * 256
U24At(v, k) == At(v, k) + At(v, k + 1) * 256 + At(v, k + 2) * 65536
Adv(v, n) == [v EXCEPT !.pc = @ + n]
IsReg(r) == r < REGISTER_COUNT

\* decode_opcode: the opcode at pc, and pc moved past it
decode_opcode(v) == [opcode |-> OpcodeFromU8(At(v, 0)), vm |-> Adv(v, 1)]

\* get_starting_offset: the u32 at program[65..69]; the slice panics on a
\* shorter program
HasLengthField(program) == Len(program) >= LUMI_HEADER_LENGTH + 1 + 4
get_starting_offset(program) ==
  LEToI32(SubSeq(program, LUMI_HEADER_LENGTH + 2, LUMI_HEADER_LENGTH + 1 + 4))

\* read_ro_data: program[69 .. 69 + offset], which panics past the end
CanReadRoData(program) ==
  /\ HasLengthField(program)
  /\ get_starting_offset(program) >= 0
  /\ LUMI_HEADER_LENGTH + 4 + 1 + get_starting_offset(program) <= Len(program)
read_ro_data(v) ==
  [v EXCEPT !.ro_data =
     SubSeq(v.program, LUMI_HEADER_LENGTH + 4 + 1 + 1,
            LUMI_HEADER_LENGTH + 4 + 1 + get_starting_offset(v.program))]

----------------------------------------------------------------------------
(* operations/memory.rs *)

\* a faulty range check that looks at the start of the range only
range_start_only(v, start, len) == ~Huge(start) /\ start < Len(v.heap)

\* Some(..) (TRUE) or None (FALSE).  `start + len` is only evaluated when
\* start < heap.len(), so it cannot overflow.
system_safe_memory_access_range(v, start, len) ==
  ~Huge(start) /\ start < Len(v.heap) /\ start + len <= Len(v.heap)

\* the heap with bytes written at [off, off + 4), and the 4 bytes read there
WriteHeap(heap, off, bytes) ==
  [i \in 1..Len(heap) |-> IF i - off \in 1..4 THEN bytes[i - off] ELSE heap[i]]
ReadHeap(heap, off) ==
  [k \in 1..4 |-> IF off + k \in 1..Len(heap) THEN heap[off + k] ELSE 0]

memory_execute_load(v) ==
  IF ~HasBytes(v, 3) \/ ~IsReg(At(v, 0)) THEN Panic(v)
  ELSE LET register == At(v, 0)
           integer_immediate == U16At(v, 1)
       IN Ret([Adv(v, 3) EXCEPT !.registers[register] = integer_immediate], Continue)

memory_execute_load_f64(v) ==
  IF ~HasBytes(v, 3) \/ ~IsReg(At(v, 0)) THEN Panic(v)
  ELSE LET register == At(v, 0)
           float_immediate == F(U16At(v, 1))
       IN Ret([Adv(v, 3) EXCEPT !.float_registers[register] = float_immediate], Continue)

\* heap.resize(new_end as usize, 0): grows with zeroes, truncates when
\* new_end is below the length, and aborts (capacity overflow) for the huge
\* usize a negative new_end becomes
memory_execute_allocate(v) ==
  IF ~HasBytes(v, 1) \/ ~IsReg(At(v, 0)) THEN Panic(v)
  ELSE LET register == At(v, 0)
           bytes == v.registers[register]
           overflow == AddOverflows(Len(v.heap), bytes)
           new_end == WrappingAdd(Len(v.heap), bytes)
           heap == IF new_end <= Len(v.heap) THEN SubSeq(v.heap, 1, new_end)
                   ELSE v.heap \o Repeat(0, new_end - Len(v.heap))
       IN IF (overflow /\ overflow_checks) \/ new_end < 0 \/ ~HasBytes(v, 3) THEN Panic(v)
          ELSE Ret([Adv(v, 3) EXCEPT !.heap = heap], Continue)

memory_execute_load_upper_immediate(v) ==
  IF ~HasBytes(v, 3) \/ ~IsReg(At(v, 0)) THEN Panic(v)
  ELSE LET register == At(v, 0)
           uv1 == At(v, 1)
           uv2 == At(v, 2)
           value1 == ShlI32(v.registers[register], 8) + uv1
           value2 == ShlI32(value1, 8) + uv2
       IN Ret([Adv(v, 3) EXCEPT !.registers[register] = value2], Continue)

memory_execute_load_memory(v) ==
  IF ~HasBytes(v, 1) \/ ~IsReg(At(v, 0)) THEN Panic(v)
  ELSE LET offset == v.registers[At(v, 0)]
       IN IF system_safe_memory_access_range(v, offset, 4)
          THEN LET data == LEToI32(ReadHeap(v.heap, offset))
               IN IF ~HasBytes(v, 3) \/ ~IsReg(At(v, 1)) THEN Panic(v)
                  ELSE Ret([Adv(v, 3) EXCEPT !.registers[At(v, 1)] = data], Continue)
          ELSE Ret(Adv(v, 1), Crash(10))

memory_execute_set_memory(v) ==
  IF ~HasBytes(v, 2) \/ ~IsReg(At(v, 0)) \/ ~IsReg(At(v, 1)) THEN Panic(v)
  ELSE LET offset_register == At(v, 0)
           data_register == At(v, 1)
           offset == v.registers[offset_register]
           data == v.registers[data_register]
           buf == I32ToLE(data)
       IN IF system_safe_memory_access_range(v, offset, 4)
          THEN IF ~HasBytes(v, 3) THEN Panic(v)
               ELSE Ret([Adv(v, 3) EXCEPT !.heap = WriteHeap(v.heap, offset, buf)], Continue)
          ELSE Ret(Adv(v, 2), Crash(10))

memory_execute_push_to_stack(v) ==
  IF ~HasBytes(v, 3) \/ ~IsReg(At(v, 0)) THEN Panic(v)
  ELSE LET register == At(v, 0)
           value == v.registers[register]
       IN Ret([Adv(v, 3) EXCEPT !.stack = Append(@, value), !.sp = @ + 1], Continue)

\* sp -= 1 underflows at sp = 0: a panic with overflow checks, a wrap to
\* usize::MAX (held as -1) without
memory_execute_pop_from_stack(v) ==
  IF ~HasBytes(v, 3) \/ ~IsReg(At(v, 0)) THEN Panic(v)
  ELSE IF v.sp = 0 /\ overflow_checks THEN Panic(v)
  ELSE IF v.stack = <<>> THEN Panic(v)
  ELSE LET register == At(v, 0)
       IN Ret([Adv(v, 3) EXCEPT !.sp = @ - 1,
                                !.registers[register] = v.stack[Len(v.stack)],
                                !.stack = SubSeq(@, 1, Len(@) - 1)], Continue)
----------------------------------------------------------------------------
(* operations/arithmetic.rs *)

\* the three register operands of a three-register instruction are all read
\* (and bounds-checked) by the handler; a plain `+`, `-`, `*` panics on
\* overflow with overflow checks and wraps without
Arith3(v, overflows, value) ==
  IF ~HasBytes(v, 3) \/ ~IsReg(At(v, 0)) \/ ~IsReg(At(v, 1)) \/ ~IsReg(At(v, 2)) THEN Panic(v)
  ELSE IF overflows /\ overflow_checks THEN Panic(v)
  ELSE Ret([Adv(v, 3) EXCEPT !.registers[At(v, 2)] = value], Continue)

Reg1(v) == v.registers[At(v, 0)]
Reg2(v) == v.registers[At(v, 1)]
RegsOk2(v) == HasBytes(v, 2) /\ IsReg(At(v, 0)) /\ IsReg(At(v, 1))

arithmetic_execute_add(v) ==
  IF ~RegsOk2(v) THEN Panic(v)
  ELSE Arith3(v, AddOverflows(Reg1(v), Reg2(v)), WrappingAdd(Reg1(v), Reg2(v)))

arithmetic_execute_sub(v) ==
  IF ~RegsOk2(v) THEN Panic(v)
  ELSE Arith3(v, SubOverflows(Reg1(v), Reg2(v)), WrappingSub(Reg1(v), Reg2(v)))

arithmetic_execute_mul(v) ==
  IF ~RegsOk2(v) THEN Panic(v)
  ELSE Arith3(v, MulOverflows(Reg1(v), Reg2(v)), WrappingMul(Reg1(v), Reg2(v)))

\* `/` and `%` panic on a zero divisor and on i32::MIN / -1 in every build
arithmetic_execute_div(v) ==
  IF ~RegsOk2(v) \/ ~HasBytes(v, 3) THEN Panic(v)
  ELSE LET register_1 == Reg1(v)
           register_2 == Reg2(v)
       IN IF register_2 = 0 \/ (register_1 = I32Min /\ register_2 = -1) THEN Panic(v)
          ELSE IF ~IsReg(At(v, 2)) THEN Panic(v)
          ELSE Ret([Adv(v, 3) EXCEPT !.registers[At(v, 2)] = TruncDiv(register_1, register_2),
                                     !.remainder = I32AsU32(TruncRem(register_1, register_2))],
                   Continue)

FReg1(v) == v.float_registers[At(v, 0)]
FReg2(v) == v.float_registers[At(v, 1)]

FArith3(v, value) ==
  IF ~HasBytes(v, 3) \/ ~IsReg(At(v, 0)) \/ ~IsReg(At(v, 1)) \/ ~IsReg(At(v, 2)) THEN Panic(v)
  ELSE Ret([Adv(v, 3) EXCEPT !.float_registers[At(v, 2)] = value], Continue)

arithmetic_execute_add_f64(v) == IF ~RegsOk2(v) THEN Panic(v) ELSE FArith3(v, FAdd(FReg1(v), FReg2(v)))
arithmetic_execute_sub_f64(v) == IF ~RegsOk2(v) THEN Panic(v) ELSE FArith3(v, FSub(FReg1(v), FReg2(v)))
arithmetic_execute_mul_f64(v) == IF ~RegsOk2(v) THEN Panic(v) ELSE FArith3(v, FMul(FReg1(v), FReg2(v)))

arithmetic_execute_div_f64(v) ==
  IF ~RegsOk2(v) THEN Panic(v)
  ELSE LET r == FArith3(v, FDiv(FReg1(v), FReg2(v)))
       IN IF r.status = Panicked THEN r
          ELSE Ret([r.vm EXCEPT !.remainder = I32AsU32(FRemAsU32(FReg1(v), FReg2(v)))], Continue)

arithmetic_execute_increment(v) ==
  IF ~HasBytes(v, 1) \/ ~IsReg(At(v, 0)) THEN Panic(v)
  ELSE IF AddOverflows(Reg1(v), 1) /\ overflow_checks THEN Panic(v)
  ELSE IF ~HasBytes(v, 3) THEN Panic(v)
  ELSE Ret([Adv(v, 3) EXCEPT !.registers[At(v, 0)] = WrappingAdd(Reg1(v), 1)], Continue)

arithmetic_execute_decrement(v) ==
  IF ~HasBytes(v, 1) \/ ~IsReg(At(v, 0)) THEN Panic(v)
  ELSE IF SubOverflows(Reg1(v), 1) /\ overflow_checks THEN Panic(v)
  ELSE IF ~HasBytes(v, 3) THEN Panic(v)
  ELSE Ret([Adv(v, 3) EXCEPT !.registers[At(v, 0)] = WrappingSub(Reg1(v), 1)], Continue)

----------------------------------------------------------------------------
(* operations/comparison.rs *)

\* a comparison that leaves its padding byte unread
compare_without_padding(v, flag) ==
  IF ~HasBytes(v, 3) THEN Panic(v)
  ELSE Ret([Adv(v, 2) EXCEPT !.equal_flag = flag], Continue)

\* two registers read, equal_flag set, one byte of padding consumed
Compare(v, flag) ==
  IF ~HasBytes(v, 3) THEN Panic(v)
  ELSE Ret([Adv(v, 3) EXCEPT !.equal_flag = flag], Continue)

comparison_execute_equal(v) ==
  IF ~RegsOk2(v) THEN Panic(v) ELSE Compare(v, Reg1(v) = Reg2(v))
comparison_execute_not_equal(v) ==
  IF ~RegsOk2(v) THEN Panic(v) ELSE Compare(v, Reg1(v) # Reg2(v))
comparison_execute_greater_than(v) ==
  IF ~RegsOk2(v) THEN Panic(v) ELSE Compare(v, Reg1(v) > Reg2(v))
comparison_execute_less_than(v) ==
  IF ~RegsOk2(v) THEN Panic(v) ELSE Compare(v, Reg1(v) < Reg2(v))
comparison_execute_greater_than_or_equal(v) ==
  IF ~RegsOk2(v) THEN Panic(v) ELSE Compare(v, Reg1(v) >= Reg2(v))
comparison_execute_less_than_or_equal(v) ==
  IF ~RegsOk2(v) THEN Panic(v) ELSE Compare(v, Reg1(v) <= Reg2(v))

\* (a - b).abs() < f64::EPSILON and > f64::EPSILON: the difference of two
\* fractions of the model is 0 or far above EPSILON; a difference that is
\* NaN (an operand NaN, or inf - inf) compares false both ways
FDiffIsNaN(x, y) == FIsNaN(FSub(x, y))
FDiffIsZero(x, y) == ~FDiffIsNaN(x, y) /\ ~FIsInf(FSub(x, y)) /\ FSub(x, y)[1] = 0
FLeq(x, y) == FLess(x, y) \/ FEq(x, y)

comparison_execute_equal_f64(v) ==
  IF ~RegsOk2(v) THEN Panic(v) ELSE Compare(v, FDiffIsZero(FReg1(v), FReg2(v)))
comparison_execute_not_equal_f64(v) ==
  IF ~RegsOk2(v) THEN Panic(v)
  ELSE Compare(v, ~FDiffIsNaN(FReg1(v), FReg2(v)) /\ ~FDiffIsZero(FReg1(v), FReg2(v)))
comparison_execute_greater_than_f64(v) ==
  IF ~RegsOk2(v) THEN Panic(v) ELSE Compare(v, FLess(FReg2(v), FReg1(v)))
comparison_execute_less_than_f64(v) ==
  IF ~RegsOk2(v) THEN Panic(v) ELSE Compare(v, FLess(FReg1(v), FReg2(v)))
comparison_execute_greater_than_or_equal_f64(v) ==
  IF ~RegsOk2(v) THEN Panic(v) ELSE Compare(v, FLeq(FReg2(v), FReg1(v)))
comparison_execute_less_than_or_equal_f64(v) ==
  IF ~RegsOk2(v) THEN Panic(v) ELSE Compare(v, FLeq(FReg1(v), FReg2(v)))

----------------------------------------------------------------------------
(* operations/control.rs *)

control_execute_jump(v) ==
  IF ~HasBytes(v, 1) \/ ~IsReg(At(v, 0)) THEN Panic(v)
  ELSE Ret([v EXCEPT !.pc = v.registers[At(v, 0)]], Continue)

\* pc += value on usize: the sum passes 2^64 exactly when value is huge and
\* the representatives add up to 0 or more
control_execute_jump_forward(v) ==
  IF ~HasBytes(v, 1) \/ ~IsReg(At(v, 0)) THEN Panic(v)
  ELSE LET value == v.registers[At(v, 0)]
           pc == v.pc + 1
       IN IF Huge(value) /\ pc + value >= 0 /\ overflow_checks THEN Panic(v)
          ELSE Ret([v EXCEPT !.pc = pc + value], Continue)

\* pc -= value on usize: underflows when value is above pc
control_execute_jump_backward(v) ==
  IF ~HasBytes(v, 1) \/ ~IsReg(At(v, 0)) THEN Panic(v)
  ELSE LET value == v.registers[At(v, 0)]
           pc == v.pc + 1
       IN IF (Huge(value) \/ value > pc) /\ overflow_checks THEN Panic(v)
          ELSE Ret([v EXCEPT !.pc = pc - value], Continue)

control_execute_jump_if_equal(v) ==
  IF ~HasBytes(v, 1) \/ ~IsReg(At(v, 0)) THEN Panic(v)
  ELSE LET target == v.registers[At(v, 0)]
       IN IF v.equal_flag THEN Ret([v EXCEPT !.pc = target], Continue)
          ELSE IF ~HasBytes(v, 3) THEN Panic(v)
          ELSE Ret(Adv(v, 3), Continue)

control_execute_direct_jump(v) ==
  IF ~HasBytes(v, 2) THEN Panic(v)
  ELSE Ret([v EXCEPT !.pc = U16At(v, 0)], Continue)

control_execute_direct_jump_if_equal(v) ==
  IF ~HasBytes(v, 2) THEN Panic(v)
  ELSE IF v.equal_flag THEN Ret([v EXCEPT !.pc = U16At(v, 0)], Continue)
  ELSE IF ~HasBytes(v, 3) THEN Panic(v)
  ELSE Ret(Adv(v, 3), Continue)

\* a LOOP that jumps without counting
loop_without_counting(v) ==
  IF v.loop_counter # 0
  THEN IF ~HasBytes(v, 2) THEN Panic(v)
       ELSE Ret([v EXCEPT !.pc = U16At(v, 0)], Continue)
  ELSE Ret(Adv(v, 3), Continue)

control_execute_loop(v) ==
  IF v.loop_counter # 0
  THEN IF ~HasBytes(v, 2) THEN Panic(v)
       ELSE Ret([v EXCEPT !.loop_counter = @ - 1, !.pc = U16At(v, 0)], Continue)
  ELSE Ret(Adv(v, 3), Continue)

control_execute_create_loop(v) ==
  IF ~HasBytes(v, 3) THEN Panic(v)
  ELSE Ret([Adv(v, 3) EXCEPT !.loop_counter = U16At(v, 0)], Continue)

----------------------------------------------------------------------------
(* operations/bitwise.rs and operations/logical.rs *)

\* wrapping_shl / wrapping_shr take the shift modulo 32; a 0 byte means 16
ShiftBy(byte) == (IF byte = 0 THEN 16 ELSE byte) % 32

bitwise_execute_shift_left(v) ==
  IF ~HasBytes(v, 3) \/ ~IsReg(At(v, 0)) THEN Panic(v)
  ELSE Ret([Adv(v, 3) EXCEPT !.registers[At(v, 0)] = ShlI32(@, ShiftBy(At(v, 1)))], Continue)

bitwise_execute_shift_right(v) ==
  IF ~HasBytes(v, 3) \/ ~IsReg(At(v, 0)) THEN Panic(v)
  ELSE Ret([Adv(v, 3) EXCEPT !.registers[At(v, 0)] = ShrI32(@, ShiftBy(At(v, 1)))], Continue)

logical_execute_and(v) ==
  IF ~RegsOk2(v) THEN Panic(v) ELSE Arith3(v, FALSE, Bitwise(AndBit, Reg1(v), Reg2(v), 31))
logical_execute_or(v) ==
  IF ~RegsOk2(v) THEN Panic(v) ELSE Arith3(v, FALSE, Bitwise(OrBit, Reg1(v), Reg2(v), 31))
logical_execute_xor(v) ==
  IF ~RegsOk2(v) THEN Panic(v) ELSE Arith3(v, FALSE, Bitwise(XorBit, Reg1(v), Reg2(v), 31))

logical_execute_not(v) ==
  IF ~RegsOk2(v) \/ ~HasBytes(v, 3) THEN Panic(v)
  ELSE Ret([Adv(v, 3) EXCEPT !.registers[At(v, 1)] = -Reg1(v) - 1], Continue)

----------------------------------------------------------------------------
(* operations/system.rs *)

\* a faulty halt that reports exit code 1
system_halt_exit_one(v) == Ret(v, Done(1))

system_halt(v) == Ret(v, Done(0))

system_no_operation(v) ==
  IF ~HasBytes(v, 3) THEN Panic(v) ELSE Ret(Adv(v, 3), Continue)

system_execute_breakpoint(v) ==
  IF ~HasBytes(v, 3) THEN Panic(v) ELSE Ret(Adv(v, 3), BreakpointHit)

\* a faulty illegal-instruction handler that reports a clean exit
illegal_instruction_exit_zero(v) == Ret(v, Done(0))

system_illegal_instruction(v) == Ret(v, Done(1))

\* the offsets of ro_data from `from` on that hold a NUL
NulsFrom(ro, from) == {i \in from..(Len(ro) - 1) : ro[i + 1] = 0}
Min(S) == CHOOSE x \in S : \A y \in S : x <= y

\* the scan `while slice[ending_offset] != 0` panics when it runs off the
\* end of ro_data; from_utf8 rejects the bytes the model holds as 128..255
system_execute_print_string(v) ==
  IF ~HasBytes(v, 3) THEN Panic(v)
  ELSE LET starting_offset == U24At(v, 0)
           slice == v.ro_data
       IN IF NulsFrom(slice, starting_offset) = {} THEN Panic(v)
          ELSE LET ending_offset == Min(NulsFrom(slice, starting_offset))
                   bytes == SubSeq(slice, starting_offset + 1, ending_offset)
               IN IF \A i \in DOMAIN bytes : bytes[i] < 128
                  THEN Ret([Adv(v, 3) EXCEPT !.printed = Append(@, bytes)], Continue)
                  ELSE Ret(Adv(v, 3), Continue)

\* pushes pc + 3 and bp; sp is left alone
system_execute_call(v) ==
  IF ~HasBytes(v, 2) THEN Panic(v)
  ELSE LET return_destination == v.pc + 3
           destination == U16At(v, 0)
       IN Ret([v EXCEPT !.stack = @ \o <<return_destination, v.bp>>,
                        !.bp = v.sp,
                        !.pc = destination], Continue)

system_execute_return(v) ==
  IF Len(v.stack) < 2 THEN Panic(v)
  ELSE Ret([v EXCEPT !.sp = v.bp,
                     !.bp = v.stack[Len(v.stack)],
                     !.pc = v.stack[Len(v.stack) - 1],
                     !.stack = SubSeq(@, 1, Len(@) - 2)], Continue)
----------------------------------------------------------------------------
(* virtual_machine.rs: execute_instruction *)

\* `x as f32` for an i32: exact below 2^24, else rounded to 24 significant
\* bits (ties to even), held as <<mantissa, exponent>>
RECURSIVE F32Exp(_, _)
F32Exp(a, k) == IF a < Pow2(24 + k) \/ k = 7 THEN k ELSE F32Exp(a, k + 1)

AsF32(x) ==
  IF x = I32Min THEN <<-Pow2(23), 8>>
  ELSE IF Abs(x) < Pow2(24) THEN <<x, 0>>
  ELSE LET k == F32Exp(Abs(x), 1)
           u == Pow2(k)
           q == Abs(x) \div u
           r == Abs(x) % u
           up == (2 * r > u) \/ (2 * r = u /\ q % 2 = 1)
           m == IF up THEN q + 1 ELSE q
       IN IF m = Pow2(24) THEN <<Sgn(x) * Pow2(23), k + 1>> ELSE <<Sgn(x) * m, k>>

\* a watch key is <<"Memory", addr>>, <<"Register", i>> or
\* <<"FloatRegister", i>>; its current value as the f32 the check compares
\* (a float register's fraction is compared as it is)
WatchReadable(v, key) ==
  IF key[1] = "Memory" THEN key[2] < Len(v.heap) ELSE key[2] < REGISTER_COUNT

WatchCurrent(v, key) ==
  CASE key[1] = "Memory" -> AsF32(v.heap[key[2] + 1])
    [] key[1] = "Register" -> AsF32(v.registers[key[2]])
    [] OTHER -> IF v.float_registers[key[2]][2] = 1
                THEN AsF32(v.float_registers[key[2]][1])
                ELSE v.float_registers[key[2]]

\* NaN differs from everything, itself included
WatchDiffers(cur, last) == cur # last \/ cur = FNaN

WatchChanged(v) ==
  {key \in DOMAIN v.watch_variables :
     WatchDiffers(WatchCurrent(v, key), v.watch_variables[key])}

\* system.rs: add_watch_variable, for a key the machine can read (it indexes
\* the heap or a register file with the key): the watch starts at the key's
\* current value
add_watch_variable(v, key) ==
  [v EXCEPT !.watch_variables =
     [k \in DOMAIN @ \cup {key} |-> IF k = key THEN WatchCurrent(v, key) ELSE @[k]]]

\* the watch loop at the head of execute_instruction
check_watch_variables(v) ==
  [v EXCEPT !.watch_variables = [key \in DOMAIN @ |-> WatchCurrent(v, key)],
            !.watch_log = IF WatchChanged(v) = {} THEN @ ELSE Append(@, WatchChanged(v))]

\* instruction_table.get(&opcode): the handler inserted for the opcode
Handler(opcode, v) ==
  CASE opcode = "LOAD" -> memory_execute_load(v)
    [] opcode = "LOADF64" -> memory_execute_load_f64(v)
    [] opcode = "ALOC" -> memory_execute_allocate(v)
    [] opcode = "LUI" -> memory_execute_load_upper_immediate(v)
    [] opcode = "SETM" -> memory_execute_set_memory(v)
    [] opcode = "LOADM" -> memory_execute_load_memory(v)
    [] opcode = "PUSH" -> memory_execute_push_to_stack(v)
    [] opcode = "POP" -> memory_execute_pop_from_stack(v)
    [] opcode = "ADD" -> arithmetic_execute_add(v)
    [] opcode = "SUB" -> arithmetic_execute_sub(v)
    [] opcode = "MUL" -> arithmetic_execute_mul(v)
    [] opcode = "DIV" -> arithmetic_execute_div(v)
    [] opcode = "ADDF64" -> arithmetic_execute_add_f64(v)
    [] opcode = "SUBF64" -> arithmetic_execute_sub_f64(v)
    [] opcode = "MULF64" -> arithmetic_execute_mul_f64(v)
    [] opcode = "DIVF64" -> arithmetic_execute_div_f64(v)
    [] opcode = "INC" -> arithmetic_execute_increment(v)
    [] opcode = "DEC" -> arithmetic_execute_decrement(v)
    [] opcode = "JMP" -> control_execute_jump(v)
    [] opcode = "JMPF" -> control_execute_jump_forward(v)
    [] opcode = "JMPB" -> control_execute_jump_backward(v)
    [] opcode = "JMPE" -> control_execute_jump_if_equal(v)
    [] opcode = "DJMP" -> control_execute_direct_jump(v)
    [] opcode = "DJMPE" -> control_execute_direct_jump_if_equal(v)
    [] opcode = "LOOP" -> control_execute_loop(v)
    [] opcode = "CLOOP" -> control_execute_create_loop(v)
    [] opcode = "EQ" -> comparison_execute_equal(v)
    [] opcode = "NEQ" -> comparison_execute_not_equal(v)
    [] opcode = "GT" -> comparison_execute_greater_than(v)
    [] opcode = "LT" -> comparison_execute_less_than(v)
    [] opcode = "GTE" -> comparison_execute_greater_than_or_equal(v)
    [] opcode = "LTE" -> comparison_execute_less_than_or_equal(v)
    [] opcode = "EQF64" -> comparison_execute_equal_f64(v)
    [] opcode = "NEQF64" -> comparison_execute_not_equal_f64(v)
    [] opcode = "GTF64" -> comparison_execute_greater_than_f64(v)
    [] opcode = "LTF64" -> comparison_execute_less_than_f64(v)
    [] opcode = "GTEF64" -> comparison_execute_greater_than_or_equal_f64(v)
    [] opcode = "LTEF64" -> comparison_execute_less_than_or_equal_f64(v)
    [] opcode = "SHL" -> bitwise_execute_shift_left(v)
    [] opcode = "SHR" -> bitwise_execute_shift_right(v)
    [] opcode = "AND" -> logical_execute_and(v)
    [] opcode = "OR" -> logical_execute_or(v)
    [] opcode = "XOR" -> logical_execute_xor(v)
    [] opcode = "NOT" -> logical_execute_not(v)
    [] opcode = "PRTS" -> system_execute_print_string(v)
    [] opcode = "CALL" -> system_execute_call(v)
    [] opcode = "RET" -> system_execute_return(v)
    [] opcode = "NOP" -> system_no_operation(v)
    [] opcode = "HLT" -> system_halt(v)
    [] opcode = "BKPT" -> system_execute_breakpoint(v)
    [] OTHER -> system_illegal_instruction(v)

\* execute_instruction: Done(1) at or past the end of the program; else the
\* watch check, the decode, and the handler the table holds for the opcode
\* (Done(1), "Illegal instruction", when it holds none)
execute_instruction(v) ==
  IF UsizeGe(v.pc, Len(v.program)) THEN Ret(v, Done(1))
  ELSE IF \E key \in DOMAIN v.watch_variables : ~WatchReadable(v, key) THEN Panic(v)
  ELSE LET d == decode_opcode(check_watch_variables(v))
       IN IF d.opcode \in d.vm.instruction_table THEN Handler(d.opcode, d.vm)
          ELSE Ret(d.vm, Done(1))
----------------------------------------------------------------------------
(* The assembler (lumi_asm/src) *)

\* an Option: None (the local `is_done` of run() while the loop runs), or
\* Some(value)
None == [some |-> FALSE, value |-> 0]
Some(code) == [some |-> TRUE, value |-> code]

\* Token: its variant, and the variant's payload (a number, a name, or the
\* bytes of a string)
Tok(type, num, name, bytes) == [type |-> type, num |-> num, name |-> name, bytes |-> bytes]
NoToken == Tok("None", 0, "", <<>>)
Op(code) == Tok("Op", 0, code, <<>>)
Register(reg_num) == Tok("Register", reg_num, "", <<>>)
IntegerOperand(value) == Tok("IntegerOperand", value, "", <<>>)
FloatOperand(value) == Tok("FloatOperand", value, "", <<>>)
LabelDeclaration(name) == Tok("LabelDeclaration", 0, name, <<>>)
LabelUsage(name) == Tok("LabelUsage", 0, name, <<>>)
Directive(directive_type) == Tok("Directive", 0, directive_type, <<>>)
LString(value) == Tok("LString", 0, "", value)

\* DirectiveType::from_str, on the lower-cased text
DirectiveTypeFromStr(input) ==
  CASE input = ".data" -> "Data"
    [] input = ".bss" -> "Bss"
    [] input = ".text" -> "Text"
    [] input = ".asciiz" -> "Asciiz"
    [] input = ".integer" -> "Integer"
    [] input = ".float" -> "Float"
    [] OTHER -> "Unknown"

\* the match of AssemblerInstruction::from_pair on a directive's text
DirectiveTypeOfInstruction(text) ==
  CASE text = ".data" -> "Data"
    [] text = ".text" -> "Text"
    [] text = ".asciiz" -> "Asciiz"
    [] text = ".integer" -> "Integer"
    [] text = ".float" -> "Float"
    [] OTHER -> "Unknown"

AssemblerInstruction(label, directive, opcode, operand_1, operand_2, operand_3) ==
  [opcode |-> opcode, operand_1 |-> operand_1, operand_2 |-> operand_2,
   operand_3 |-> operand_3, label |-> label, directive |-> directive]
EmptyInstruction == AssemblerInstruction(NoToken, NoToken, NoToken, NoToken, NoToken, NoToken)

\* A pair of the parse tree: its rule, the text under it, a number the text
\* spells, the rule of the pair an operand wraps, and its inner pairs.
\* A label_declaration's text is the identifier, an opcode's text is the
\* upper-cased mnemonic; an opcode whose text parses as an i32 has inner
\* "number" and that number.
Pair(rule, text, num, inner, pairs) ==
  [rule |-> rule, text |-> text, num |-> num, inner |-> inner, pairs |-> pairs]

Ok(value) == [ok |-> TRUE, value |-> value]
Err(error) == [ok |-> FALSE, value |-> error]

\* convert_operand: a register number is a u8; a string_immediate is none
\* of the rules it converts
convert_operand(pair) ==
  CASE pair.inner = "register" ->
         IF pair.num \in 0..255 THEN Ok(Register(pair.num)) ELSE Err("ParseError")
    [] pair.inner = "int_immediate" -> Ok(IntegerOperand(pair.num))
    [] pair.inner = "float_immediate" -> Ok(FloatOperand(pair.num))
    [] pair.inner = "label_usage" -> Ok(LabelUsage(pair.text))
    [] OTHER -> Err("ParseError")

\* the first free operand slot of an instruction, 0 when all three are taken
FreeSlot(instruction) ==
  CASE instruction.operand_1.type = "None" -> 1
    [] instruction.operand_2.type = "None" -> 2
    [] instruction.operand_3.type = "None" -> 3
    [] OTHER -> 0

SetSlot(instruction, slot, token) ==
  CASE slot = 1 -> [instruction EXCEPT !.operand_1 = token]
    [] slot = 2 -> [instruction EXCEPT !.operand_2 = token]
    [] OTHER -> [instruction EXCEPT !.operand_3 = token]

\* AssemblerInstruction::from_pair, its second loop from token i on
RECURSIVE FromPairLoop(_, _, _)
FromPairLoop(tokens, i, instruction) ==
  IF i > Len(tokens) THEN Ok(instruction)
  ELSE
    CASE tokens[i].rule = "label_declaration" ->
           FromPairLoop(tokens, i + 1,
                        [instruction EXCEPT !.label = LabelDeclaration(tokens[i].text)])
      [] tokens[i].rule = "directive" ->
           IF i + 1 <= Len(tokens) /\ tokens[i + 1].rule = "operand"
           THEN IF convert_operand(tokens[i + 1]).ok
                THEN FromPairLoop(tokens, i + 2,
                       [instruction EXCEPT
                          !.directive = Directive(DirectiveTypeOfInstruction(tokens[i].text)),
                          !.operand_1 = convert_operand(tokens[i + 1]).value])
                ELSE Err("ParseError")
           ELSE FromPairLoop(tokens, i + 1,
                  [instruction EXCEPT
                     !.directive = Directive(DirectiveTypeOfInstruction(tokens[i].text))])
      [] tokens[i].rule = "opcode" ->
           FromPairLoop(tokens, i + 1,
             IF tokens[i].inner = "number"
             THEN [instruction EXCEPT !.operand_1 = IntegerOperand(tokens[i].num)]
             ELSE [instruction EXCEPT !.opcode = Op(OpcodeFromStr(tokens[i].text))])
      [] tokens[i].rule = "operand" ->
           IF convert_operand(tokens[i]).ok /\ FreeSlot(instruction) # 0
           THEN FromPairLoop(tokens, i + 1,
                  SetSlot(instruction, FreeSlot(instruction), convert_operand(tokens[i]).value))
           ELSE Err("ParseError")
      [] OTHER -> FromPairLoop(tokens, i + 1, instruction)

from_pair(pair) == FromPairLoop(pair.pairs, 1, EmptyInstruction)

\* the data_declaration arm of Program::from_pairs, from inner pair i on: an
\* operand that does not convert, or a fourth one, is logged and dropped
RECURSIVE DataDeclarationLoop(_, _, _)
DataDeclarationLoop(tokens, i, instruction) ==
  IF i > Len(tokens) THEN instruction
  ELSE DataDeclarationLoop(tokens, i + 1,
    CASE tokens[i].rule = "label_declaration" ->
           [instruction EXCEPT !.label = LabelDeclaration(tokens[i].text)]
      [] tokens[i].rule = "directive" ->
           [instruction EXCEPT !.directive = Directive(DirectiveTypeFromStr(tokens[i].text))]
      [] tokens[i].rule = "operand" ->
           IF convert_operand(tokens[i]).ok /\ FreeSlot(instruction) # 0
           THEN SetSlot(instruction, FreeSlot(instruction), convert_operand(tokens[i]).value)
           ELSE instruction
      [] OTHER -> instruction)

\* Program::from_pairs over the inner pairs of the program pair: every pair
\* ends by pushing the record built in its arm, which an instruction pair,
\* having pushed its instruction, leaves empty
RECURSIVE from_pairs(_)
from_pairs(pairs) ==
  IF pairs = <<>> THEN Ok(<<>>)
  ELSE
    LET pair == Head(pairs)
        rest == from_pairs(Tail(pairs))
        pushed ==
          CASE pair.rule = "directive" ->
                 <<[EmptyInstruction EXCEPT
                      !.directive = Directive(DirectiveTypeFromStr(pair.text))]>>
            [] pair.rule = "data_declaration" ->
                 <<DataDeclarationLoop(pair.pairs, 1, EmptyInstruction)>>
            [] pair.rule = "label_declaration" ->
                 <<[EmptyInstruction EXCEPT !.label = LabelDeclaration(pair.text)]>>
            [] pair.rule = "instruction" ->
                 IF from_pair(pair).ok THEN <<from_pair(pair).value, EmptyInstruction>>
                 ELSE <<>>
            [] OTHER -> <<EmptyInstruction>>
    IN IF pair.rule = "instruction" /\ ~from_pair(pair).ok THEN Err("ParseError")
       ELSE IF rest.ok THEN Ok(pushed \o rest.value)
       ELSE rest

is_label(instruction) == instruction.label.type # "None"
is_opcode(instruction) == instruction.opcode.type # "None"
is_directive(instruction) == instruction.directive.type # "None"

\* symbols.rs: the table is a vector of [name, offset, symbol_type], the
\* first symbol of a name answering for it
HasSymbol(symbols, s) == \E i \in DOMAIN symbols : symbols[i].name = s
FirstSymbol(symbols, s) == CHOOSE i \in DOMAIN symbols :
  symbols[i].name = s /\ \A j \in 1..(i - 1) : symbols[j].name # s
set_symbol_offset(symbols, s, offset) ==
  IF HasSymbol(symbols, s)
  THEN [symbols EXCEPT ![FirstSymbol(symbols, s)].offset = Some(offset)]
  ELSE symbols
symbol_value(symbols, s) ==
  IF HasSymbol(symbols, s) THEN symbols[FirstSymbol(symbols, s)].offset ELSE None

\* f32 little-endian bytes of a whole number below 2^24 in magnitude
RECURSIVE Log2(_)
Log2(n) == IF n < 2 THEN 0 ELSE 1 + Log2(n \div 2)
F32ToLE(value) ==
  IF value = 0 THEN <<0, 0, 0, 0>>
  ELSE LET e == Log2(Abs(value))
           mantissa == (Abs(value) - Pow2(e)) * Pow2(23 - e)
           exponent == e + 127
           sign == IF value < 0 THEN 128 ELSE 0
       IN <<mantissa % 256, (mantissa \div 256) % 256,
            (exponent % 2) * 128 + (mantissa \div 65536),
            sign + (exponent \div 2)>>

\* AssemblerInstruction::extract_operand
extract_operand(token, symbols) ==
  CASE token.type = "Register" -> <<token.num>>
    [] token.type = "IntegerOperand" -> I32ToLE(token.num)
    [] token.type = "FloatOperand" -> F32ToLE(token.num)
    [] token.type = "LabelUsage" ->
         IF symbol_value(symbols, token.name).some
         THEN I32ToLE(symbol_value(symbols, token.name).value)
         ELSE <<>>
    [] OTHER -> <<>>

\* AssemblerInstruction::to_bytes: the opcode byte and each operand, no
\* padding; nothing for a record without an opcode
to_bytes(instruction, symbols) ==
  IF instruction.opcode.type = "Op"
  THEN <<U8FromOpcode(instruction.opcode.name)>>
         \o extract_operand(instruction.operand_1, symbols)
         \o extract_operand(instruction.operand_2, symbols)
         \o extract_operand(instruction.operand_3, symbols)
  ELSE <<>>

\* AssemblerInstruction's getters
get_label_name(instruction) ==
  IF instruction.label.type = "LabelDeclaration" THEN Some(instruction.label.name) ELSE None
get_string_constant(instruction) ==
  IF instruction.operand_1.type = "LString" THEN Some(instruction.operand_1.bytes) ELSE None
get_i32_constant(instruction) ==
  IF instruction.operand_1.type = "IntegerOperand" THEN Some(instruction.operand_1.num) ELSE None
get_float_value(instruction) ==
  IF instruction.operand_2.type = "FloatOperand" THEN Some(instruction.operand_2.num) ELSE None

\* Assembler::new
AssemblerNew ==
  [phase |-> "First", symbols |-> <<>>, ro |-> <<>>, bytecode |-> <<>>, ro_offset |-> 0,
   sections |-> <<>>, current_section |-> None, current_instruction |-> 0,
   errors |-> <<>>, buf |-> <<0, 0, 0, 0>>]

AssemblerError(kind, instruction, symbol) ==
  [kind |-> kind, instruction |-> instruction, symbol |-> symbol]

\* Assembler::process_label_declaration: a name already in the table is an
\* error, and the symbol is added all the same
process_label_declaration(a, instruction) ==
  IF ~get_label_name(instruction).some
  THEN [a EXCEPT !.errors = Append(@, AssemblerError("StringConstantDeclaredWithoutLabel",
                                                     a.current_instruction, ""))]
  ELSE [a EXCEPT
          !.errors = IF HasSymbol(a.symbols, get_label_name(instruction).value)
                     THEN Append(@, AssemblerError("SymbolAlreadyDeclared", 0,
                                                   get_label_name(instruction).value))
                     ELSE @,
          !.symbols = Append(@, [name |-> get_label_name(instruction).value,
                                 offset |-> Some(a.current_instruction * 4
                                                 + LUMI_HEADER_LENGTH + 1),
                                 symbol_type |-> "Label"])]

\* the tail the three constant handlers share: the label's offset becomes
\* ro_offset and the bytes go to the read-only blob
PushConstant(a, instruction, bytes) ==
  IF get_label_name(instruction).some
  THEN [a EXCEPT
          !.symbols = set_symbol_offset(@, get_label_name(instruction).value, a.ro_offset),
          !.ro = @ \o bytes,
          !.ro_offset = @ + Len(bytes)]
  ELSE a

handle_asciiz(a, instruction) ==
  IF a.phase = "First" /\ get_string_constant(instruction).some
  THEN PushConstant(a, instruction, get_string_constant(instruction).value \o <<0>>)
  ELSE a

handle_integer(a, instruction) ==
  IF a.phase = "First" /\ get_i32_constant(instruction).some
  THEN PushConstant(a, instruction, I32ToLE(get_i32_constant(instruction).value))
  ELSE a

handle_float(a, instruction) ==
  IF a.phase = "First" /\ get_float_value(instruction).some
  THEN PushConstant(a, instruction, F32ToLE(get_float_value(instruction).value))
  ELSE a

\* impl From<&str> for AssemblerSection
AssemblerSectionFromStr(s) ==
  CASE s = "data" -> "Data" [] s = "text" -> "Code" [] OTHER -> "Unknown"

process_section_header(a, header_name) ==
  IF AssemblerSectionFromStr(header_name) = "Unknown" THEN a
  ELSE LET new_section == [kind |-> AssemblerSectionFromStr(header_name),
                           starting_instruction |-> Some(a.current_instruction)]
       IN [a EXCEPT !.sections = Append(@, new_section),
                    !.current_section = Some(new_section)]

process_directive(a, instruction) ==
  IF instruction.directive.type # "Directive" THEN a
  ELSE CASE instruction.directive.name = "Data" -> process_section_header(a, "data")
         [] instruction.directive.name = "Text" -> process_section_header(a, "text")
         [] instruction.directive.name = "Asciiz" -> handle_asciiz(a, instruction)
         [] instruction.directive.name = "Integer" -> handle_integer(a, instruction)
         [] instruction.directive.name = "Float" -> handle_float(a, instruction)
         [] OTHER -> [a EXCEPT !.errors = Append(@, AssemblerError("UnknownDirectiveFound", 0,
                                                                  instruction.directive.name))]

InDataSection(a) == a.current_section.some /\ a.current_section.value.kind = "Data"

\* a faulty pass 1 that lets a label outside every section go by
label_outside_section_ignored(a) == a

\* the else branch for a label met while current_section is None
push_no_segment_declaration_found(a) ==
  [a EXCEPT !.errors = Append(@, AssemblerError("NoSegmentDeclarationFound",
                                                a.current_instruction, ""))]

\* the body of the loop of process_first_phase, its counter left alone
FirstPhaseBody(a, instruction) ==
  IF InDataSection(a)
  THEN IF is_label(instruction)
       THEN CASE instruction.directive.type = "Directive"
                   /\ instruction.directive.name = "Integer" ->
                   handle_integer(process_label_declaration(a, instruction), instruction)
              [] instruction.directive.type = "Directive"
                   /\ instruction.directive.name = "Float" ->
                   handle_float(process_label_declaration(a, instruction), instruction)
              [] instruction.directive.type = "Directive"
                   /\ instruction.directive.name = "Asciiz" ->
                   handle_asciiz(process_label_declaration(a, instruction), instruction)
              [] OTHER -> process_label_declaration(a, instruction)
       ELSE IF is_directive(instruction) THEN process_directive(a, instruction)
       ELSE a
  ELSE LET labelled ==
             IF ~is_label(instruction) THEN a
             ELSE IF a.current_section.some THEN process_label_declaration(a, instruction)
             ELSE push_no_segment_declaration_found(a)
       IN IF is_directive(instruction) THEN process_directive(labelled, instruction)
          ELSE labelled

RECURSIVE FirstPhaseLoop(_, _)
FirstPhaseLoop(a, instructions) ==
  IF instructions = <<>> THEN a
  ELSE FirstPhaseLoop([FirstPhaseBody(a, Head(instructions)) EXCEPT
                         !.current_instruction = @ + 1],
                      Tail(instructions))

\* a pass 1 that leaves its loop at the first error
RECURSIVE FirstPhaseUntilError(_, _)
FirstPhaseUntilError(a, instructions) ==
  IF instructions = <<>> \/ a.errors # <<>> THEN a
  ELSE FirstPhaseUntilError([FirstPhaseBody(a, Head(instructions)) EXCEPT
                               !.current_instruction = @ + 1],
                            Tail(instructions))
first_phase_stops_at_error(a, program) ==
  [FirstPhaseUntilError(a, program) EXCEPT !.phase = "Second"]

\* Assembler::process_first_phase
process_first_phase(a, program) == [FirstPhaseLoop(a, program) EXCEPT !.phase = "Second"]

\* the loop of process_second_phase: the assembler and the bytecode so far;
\* a directive is skipped before the counter is advanced
RECURSIVE SecondPhaseLoop(_, _, _)
SecondPhaseLoop(a, instructions, bytecode) ==
  IF instructions = <<>> THEN [asm |-> a, bytecode |-> bytecode]
  ELSE IF is_directive(Head(instructions))
  THEN SecondPhaseLoop(a, Tail(instructions), bytecode)
  ELSE SecondPhaseLoop([a EXCEPT !.current_instruction = @ + 1], Tail(instructions),
                       IF is_opcode(Head(instructions))
                       THEN bytecode \o to_bytes(Head(instructions), a.symbols)
                       ELSE bytecode)

process_second_phase(a, program) ==
  SecondPhaseLoop([a EXCEPT !.current_instruction = 0], program, <<>>)

\* Assembler::assemble on the parser's result: the assembler afterwards and
\* the Result returned; appending the blob to the container empties self.ro
assemble(a, parse_result) ==
  IF ~parse_result.ok \/ ~from_pairs(parse_result.value).ok
  THEN [asm |-> a, result |-> Err(<<AssemblerError("ParseError", 0, "")>>)]
  ELSE LET program == from_pairs(parse_result.value).value
           first == process_first_phase(a, program)
           second == process_second_phase(first, program)
       IN IF first.errors # <<>> THEN [asm |-> first, result |-> Err(first.errors)]
          ELSE IF Len(first.sections) # 2
          THEN [asm |-> [first EXCEPT !.errors =
                           Append(@, AssemblerError("InsufficientSections", 0, ""))],
                result |-> Err(<<AssemblerError("InsufficientSections", 0, "")>>)]
          ELSE [asm |-> [second.asm EXCEPT !.ro = <<>>],
                result |-> Ok(get_lumi_header(Len(first.ro)) \o first.ro \o second.bytecode)]

----------------------------------------------------------------------------
(* file_disassembler.rs *)

\* Opcode::metadata: the operand types of an opcode of the catalog
metadata(opcode) ==
  OPCODE_METADATA[CHOOSE i \in DOMAIN OPCODE_METADATA : OPCODE_METADATA[i][1] = opcode]

LEToU32(b) == b[1] + 256 * b[2] + 65536 * b[3] + 16777216 * b[4]

\* the decoding of one operand at the 0-based offset pc: the text pushed
\* onto the line (here the kind and the bytes read) and the new pc; an
\* operand that does not fit in the rest of the bytecode is skipped
DecodeOperand(bytecode, pc, operand_type) ==
  CASE operand_type \in {"R", "FR"} ->
         IF pc < Len(bytecode)
         THEN [text |-> <<[kind |-> "$r", bytes |-> <<bytecode[pc + 1]>>]>>, pc |-> pc + 1]
         ELSE [text |-> <<>>, pc |-> pc]
    [] operand_type \in {"A", "I", "FI"} ->
         IF pc + 4 <= Len(bytecode)
         THEN [text |-> <<[kind |-> IF operand_type = "A" THEN "@0x" ELSE "#",
                           bytes |-> SubSeq(bytecode, pc + 1, pc + 4)]>>, pc |-> pc + 4]
         ELSE [text |-> <<>>, pc |-> pc]
    [] OTHER -> [text |-> <<>>, pc |-> pc]

\* Step 3 of disassemble: one line per opcode byte met, made of the offset
\* of the opcode, its symbol and its operands
RECURSIVE DisassembleLoop(_, _, _)
DisassembleLoop(bytecode, pc, output) ==
  IF pc >= Len(bytecode) THEN Ok(output)
  ELSE LET opcode == OpcodeFromU8(bytecode[pc + 1])
           types == metadata(opcode)[3]
           o1 == DecodeOperand(bytecode, pc + 1, types[1])
           o2 == DecodeOperand(bytecode, o1.pc, types[2])
           o3 == DecodeOperand(bytecode, o2.pc, types[3])
       IN IF opcode \notin Opcodes
          THEN Err([message |-> "Unknown opcode", at |-> pc, byte |-> bytecode[pc + 1]])
          ELSE DisassembleLoop(bytecode, o3.pc,
                               Append(output, [at |-> pc, str_symbol |-> metadata(opcode)[1],
                                               operands |-> o1.text \o o2.text \o o3.text]))

\* disassemble: the lines of the listing after its header comment
disassemble(bytecode) ==
  IF Len(bytecode) < LUMI_HEADER_LENGTH + 5
  THEN Err([message |-> "Bytecode too short", at |-> 0, byte |-> 0])
  ELSE DisassembleLoop(bytecode,
                       LUMI_HEADER_LENGTH + 1 + 4
                         + LEToU32(SubSeq(bytecode, LUMI_HEADER_LENGTH + 2,
                                          LUMI_HEADER_LENGTH + 1 + 4)),
                       <<>>)

----------------------------------------------------------------------------
(* The legacy assembler: src/src/assembler and the nom parse_program *)

\* A line of source text as the nom parsers see it: the record that
\* parse_instruction or parse_directive makes of it, or a line that neither
\* accepts (parse_opcode wants a letter, parse_directive_declaration a dot)
Line(parses, record) == [parses |-> parses, record |-> record]

\* many0(alt((parse_instruction, parse_directive))): the records of the
\* lines up to the first one neither parser accepts
RECURSIVE Many0(_)
Many0(text) ==
  IF text = <<>> \/ ~Head(text).parses THEN <<>>
  ELSE <<Head(text).record>> \o Many0(Tail(text))

\* parse_program: terminated(many0(..), opt(eof)) succeeds on every text,
\* with the unparsed rest as the remainder
parse_program(text) ==
  Ok([remainder |-> SubSeq(text, Len(Many0(text)) + 1, Len(text)),
      program |-> Many0(text)])

\* instruction_parsers.rs extract_operand: a register byte, the low two
\* bytes of an integer or of a label's offset
legacy_extract_operand(token, symbols) ==
  CASE token.type = "Register" -> <<token.num>>
    [] token.type = "IntegerOperand" -> SubSeq(I32ToLE(token.num), 1, 2)
    [] token.type = "LabelUsage" ->
         IF symbol_value(symbols, token.name).some
         THEN SubSeq(I32ToLE(symbol_value(symbols, token.name).value), 1, 2)
         ELSE <<>>
    [] OTHER -> <<>>

\* a byte vector pushed with zeros while it is shorter than 4
PadToFour(results) ==
  results \o [i \in 1..(IF Len(results) < 4 THEN 4 - Len(results) ELSE 0) |-> 0]

\* instruction_parsers.rs AssemblerInstruction::to_bytes
legacy_to_bytes(instruction, symbols) ==
  PadToFour((IF instruction.opcode.type = "Op"
             THEN <<U8FromOpcode(instruction.opcode.name)>> ELSE <<>>)
            \o legacy_extract_operand(instruction.operand_1, symbols)
            \o legacy_extract_operand(instruction.operand_2, symbols)
            \o legacy_extract_operand(instruction.operand_3, symbols))

has_operands(instruction) ==
  \/ instruction.operand_1.type # "None"
  \/ instruction.operand_2.type # "None"
  \/ instruction.operand_3.type # "None"

\* mod.rs process_label_declaration: a name already in the table is an
\* error and the table is left alone
legacy_process_label_declaration(a, instruction) ==
  IF ~get_label_name(instruction).some
  THEN [a EXCEPT !.errors = Append(@, AssemblerError("StringConstantDeclaredWithoutLabel",
                                                     a.current_instruction, ""))]
  ELSE IF HasSymbol(a.symbols, get_label_name(instruction).value)
  THEN [a EXCEPT !.errors = Append(@, AssemblerError("SymbolAlreadyDeclared", 0, ""))]
  ELSE [a EXCEPT !.symbols = Append(@, [name |-> get_label_name(instruction).value,
                                        offset |-> Some(a.current_instruction * 4 + 64 + 1),
                                        symbol_type |-> "Label"])]

\* mod.rs impl From<&str> for AssemblerSection and process_section_header
legacy_process_section_header(a, header_name) ==
  IF header_name \notin {"data", "code"} THEN a
  ELSE LET new_section == [kind |-> IF header_name = "data" THEN "Data" ELSE "Code",
                           starting_instruction |-> Some(a.current_instruction)]
       IN [a EXCEPT !.sections = Append(@, new_section),
                    !.current_section = Some(new_section)]

\* mod.rs process_directive: with operands a constant, without a section
legacy_process_directive(a, instruction) ==
  IF instruction.directive.type # "Directive" THEN a
  ELSE IF has_operands(instruction)
  THEN CASE instruction.directive.name = "asciiz" -> handle_asciiz(a, instruction)
         [] instruction.directive.name = "integer" -> handle_integer(a, instruction)
         [] OTHER -> [a EXCEPT !.errors = Append(@, AssemblerError("UnknownDirectiveFound", 0,
                                                                  instruction.directive.name))]
  ELSE legacy_process_section_header(a, instruction.directive.name)

\* mod.rs process_first_phase
RECURSIVE LegacyFirstPhaseLoop(_, _)
LegacyFirstPhaseLoop(a, instructions) ==
  IF instructions = <<>> THEN a
  ELSE LET instruction == Head(instructions)
           labelled ==
             IF ~is_label(instruction) THEN a
             ELSE IF a.current_section.some
             THEN legacy_process_label_declaration(a, instruction)
             ELSE [a EXCEPT !.errors = Append(@, AssemblerError("NoSegmentDeclarationFound",
                                                                a.current_instruction, ""))]
           directed ==
             IF is_directive(instruction) THEN legacy_process_directive(labelled, instruction)
             ELSE labelled
       IN LegacyFirstPhaseLoop([directed EXCEPT !.current_instruction = @ + 1],
                               Tail(instructions))

legacy_process_first_phase(a, program) ==
  [LegacyFirstPhaseLoop(a, program) EXCEPT !.phase = "Second"]

\* mod.rs process_second_phase: the bytecode of the records with an opcode
RECURSIVE LegacySecondPhaseLoop(_, _)
LegacySecondPhaseLoop(instructions, symbols) ==
  IF instructions = <<>> THEN <<>>
  ELSE (IF ~is_directive(Head(instructions)) /\ is_opcode(Head(instructions))
        THEN legacy_to_bytes(Head(instructions), symbols) ELSE <<>>)
       \o LegacySecondPhaseLoop(Tail(instructions), symbols)

\* the records pass 2 counts: those that are not directives
NonDirectives(instructions) == SelectSeq(instructions, LAMBDA i : ~is_directive(i))

\* mod.rs write_lumi_header: LUMI, zeros up to 65 bytes, the RO length
write_lumi_header(ro_length) ==
  <<76, 85, 77, 73>> \o [i \in 1..61 |-> 0] \o I32ToLE(ro_length)

\* mod.rs Assembler::assemble
legacy_assemble(a, raw) ==
  LET parsed == parse_program(raw)
      program == parsed.value.program
      first == legacy_process_first_phase(a, program)
  IN IF ~parsed.ok
     THEN [asm |-> a, result |-> Err(<<AssemblerError("ParseError", 0, "")>>)]
     ELSE IF first.errors # <<>> THEN [asm |-> first, result |-> Err(first.errors)]
     ELSE IF Len(first.sections) # 2
     THEN [asm |-> [first EXCEPT !.errors =
                      Append(@, AssemblerError("InsufficientSections", 0, ""))],
           result |-> Err(<<AssemblerError("InsufficientSections", 0, "")>>)]
     ELSE [asm |-> [first EXCEPT !.ro = <<>>,
                                 !.current_instruction = Len(NonDirectives(program))],
           result |-> Ok(write_lumi_header(Len(first.ro)) \o first.ro
                           \o LegacySecondPhaseLoop(program, first.symbols))]

----------------------------------------------------------------------------
(* Bounds of the model *)

\* the instructions of a container the interpreter is started on
MaxWords == 3
\* the execute_instruction calls of one run that are followed
MaxSteps == 6
\* the lines of the code section of an assembled source
MaxLines == 3

----------------------------------------------------------------------------
(* virtual_machine.rs: run *)

ControlTransfer ==
  {"JMP", "JMPF", "JMPB", "JMPE", "DJMP", "DJMPE", "LOOP", "CALL", "RET"}

\* the opcode execute_instruction decodes on machine v, "none" when it
\* returns before decoding
Fetched(v) ==
  IF UsizeGe(v.pc, Len(v.program)) THEN "none" ELSE OpcodeFromU8(At(v, 0))

\* what the run has done so far: the number of execute_instruction calls, the
\* machine before the last one and the machine before the one before it, the
\* opcode the last one decoded, the status it returned, every opcode
\* decoded so far, the machines before the CALLs that have not returned yet,
\* the machine before the CALL that the last call, a RET, returned from, the
\* loop the last CLOOP opened, the line that ended the debugger prompt since
\* the last call ("none" when there was no prompt), and in_step_mode as the
\* last call found it
NoLoop ==
  [some |-> FALSE, n |-> 0, body |-> 0, at |-> 0, runs |-> 0, same |-> TRUE,
   done |-> FALSE]
NoHist(v) ==
  [n |-> 0, pre |-> v, prev |-> v, opcode |-> "none", status |-> Continue,
   executed |-> {}, calls |-> <<>>, matched |-> <<>>, loop |-> NoLoop,
   answer |-> "none", stepping |-> FALSE]

\* the loop opened by the last CLOOP after a call of execute_instruction
\* that took v to w: the count CLOOP set, where the body starts, where its
\* LOOP stands, how many times a LOOP was executed, whether every one of
\* them was that LOOP and, when taken, went to the start of the body, and
\* whether the LOOP has fallen through, which ends the loop
LoopRuns(loop, v, w, status) ==
  IF status # Continue THEN loop
  ELSE IF Fetched(v) = "CLOOP"
  THEN [some |-> TRUE, n |-> w.loop_counter, body |-> w.pc, at |-> 0, runs |-> 0,
        same |-> TRUE, done |-> FALSE]
  ELSE IF Fetched(v) = "LOOP" /\ loop.done THEN NoLoop
  ELSE IF Fetched(v) = "LOOP" /\ loop.some
  THEN [loop EXCEPT !.runs = @ + 1,
                    !.done = v.loop_counter = 0,
                    !.at = v.pc,
                    !.same = /\ @
                             /\ loop.runs = 0 \/ loop.at = v.pc
                             /\ v.loop_counter = 0 \/ w.pc = loop.body]
  ELSE loop

\* the open CALLs after a call of execute_instruction, and the CALL a RET
\* has returned from (as a sequence of at most one machine)
OpenCalls(calls, v, status) ==
  IF status # Continue THEN calls
  ELSE IF Fetched(v) = "CALL" THEN Append(calls, v)
  ELSE IF Fetched(v) = "RET" /\ calls # <<>> THEN SubSeq(calls, 1, Len(calls) - 1)
  ELSE calls
MatchedCall(calls, v, status) ==
  IF status = Continue /\ Fetched(v) = "RET" /\ calls # <<>>
  THEN <<calls[Len(calls)]>> ELSE <<>>

\* run() up to the loop: the Start event, the header check (Crash{1} and
\* return on a bad magic), pc moved to the code start, ro_data read
RunStart ==
  /\ run_pc = "idle"
  /\ LET started == [vm EXCEPT !.events = Append(@, Event("Start", 0))]
         crashed == [started EXCEPT !.events = Append(@, Event("Crash", 1))]
         header == verify_header(vm.program)
     IN IF header = "Panic"
        THEN /\ vm' = started
             /\ run_pc' = "panicked"
             /\ returned' = returned
        ELSE IF header = "false"
        THEN /\ vm' = crashed
             /\ run_pc' = "returned"
             /\ returned' = crashed.events
        ELSE IF ~CanReadRoData(vm.program)
        THEN /\ vm' = started
             /\ run_pc' = "panicked"
             /\ returned' = returned
        ELSE /\ vm' = read_ro_data(
                        [started EXCEPT !.pc = LUMI_HEADER_LENGTH + 1 + 4
                                                 + get_starting_offset(vm.program)])
             /\ run_pc' = "loop"
             /\ returned' = returned
  /\ UNCHANGED <<is_done, in_step_mode, hist, overflow_checks, asmVars>>

\* a faulty end of run() that puts the shutdown event at the head of the log
shutdown_logged_first(v, code) ==
  [v EXCEPT !.events = <<Event("GracefulShutdown", code)>> \o @]

\* the end of run(): the GracefulShutdown event is pushed onto the log
push_graceful_shutdown(v, code) ==
  [v EXCEPT !.events = Append(@, Event("GracefulShutdown", code))]

\* one turn of the loop of run(): execute_instruction and the match on its
\* status; a terminal status ends the loop, and run() pushes the
\* GracefulShutdown event and returns the log
ExecuteInstruction ==
  /\ run_pc = "loop"
  /\ hist.n < MaxSteps
  /\ \E r \in {execute_instruction(vm)} :
       /\ hist' = [n |-> hist.n + 1, pre |-> vm, prev |-> hist.pre,
                   opcode |-> Fetched(vm),
                   status |-> r.status,
                   executed |-> hist.executed \cup ({Fetched(vm)} \ {"none"}),
                   calls |-> OpenCalls(hist.calls, vm, r.status),
                   matched |-> MatchedCall(hist.calls, vm, r.status),
                   loop |-> LoopRuns(hist.loop, vm, r.vm, r.status),
                   answer |-> "none", stepping |-> FALSE]
       /\ IF r.status.kind = "Panic"
          THEN /\ vm' = r.vm
               /\ run_pc' = "panicked"
               /\ UNCHANGED <<is_done, returned>>
          ELSE IF r.status.kind \in {"Crash", "Done"}
          THEN /\ vm' = push_graceful_shutdown(r.vm, r.status.code)
               /\ is_done' = Some(r.status.code)
               /\ returned' = vm'.events
               /\ run_pc' = "returned"
          ELSE /\ vm' = r.vm
               /\ run_pc' = "loop"
               /\ UNCHANGED <<is_done, returned>>
  /\ UNCHANGED <<in_step_mode, overflow_checks, asmVars>>
----------------------------------------------------------------------------
(* The containers and machines the interpreter is started on *)

\* one instruction as the interpreter reads it: the opcode byte and the
\* three bytes after it
Ins(op, a, b, c) == <<U8FromOpcode(op), a, b, c>>

RECURSIVE Flatten(_)
Flatten(ss) == IF ss = <<>> THEN <<>> ELSE Head(ss) \o Flatten(Tail(ss))

\* a container: the header, the read-only blob, the code
Container(ro, code) == get_lumi_header(Len(ro)) \o ro \o code
CodeStart(ro) == LUMI_HEADER_LENGTH + 1 + 4 + Len(ro)

\* the container offset of the k-th 4-byte instruction, as a 16-bit operand
Target(ro, k) == CodeStart(ro) + 4 * k

MemoryChunks ==
  { Ins("LOAD", 0, 2, 0), Ins("ALOC", 0, 0, 0), Ins("SETM", 2, 1, 0),
    Ins("SETM", 1, 0, 0), Ins("LOADM", 2, 3, 0), Ins("LOADM", 1, 3, 0),
    Ins("HLT", 0, 0, 0) }

StackChunks ==
  { Ins("LOAD", 0, 5, 0), Ins("PUSH", 0, 0, 0), Ins("POP", 1, 0, 0),
    Ins("CALL", Target(<<>>, 2), 0, 0), Ins("RET", 0, 0, 0),
    Ins("HLT", 0, 0, 0) }

JumpChunks ==
  { Ins("JMP", 0, 0, 0), Ins("JMPF", 0, 0, 0), Ins("JMPB", 0, 0, 0),
    Ins("JMPE", 0, 0, 0), Ins("DJMP", Target(<<>>, 2), 0, 0),
    Ins("DJMPE", Target(<<>>, 1), 0, 0), Ins("EQ", 1, 1, 0),
    Ins("CLOOP", 2, 0, 0), Ins("LOOP", Target(<<>>, 1), 0, 0),
    Ins("HLT", 0, 0, 0) }

\* loops of zero, one and two turns back, around nothing or around an INC
LoopChunks ==
  { Ins("CLOOP", 0, 0, 0), Ins("CLOOP", 1, 0, 0), Ins("CLOOP", 2, 0, 0),
    Ins("INC", 0, 0, 0), Ins("LOOP", Target(<<>>, 1), 0, 0),
    Ins("LOOP", Target(<<>>, 2), 0, 0), Ins("HLT", 0, 0, 0) }

\* the six comparisons of register 0 with register 2, and an ADD whose
\* destination is one of its sources
CompareChunks ==
  { Ins("EQ", 0, 2, 0), Ins("NEQ", 0, 2, 0), Ins("GT", 0, 2, 0), Ins("LT", 0, 2, 0),
    Ins("GTE", 0, 2, 0), Ins("LTE", 0, 2, 0), Ins("ADD", 0, 2, 0),
    <<U8FromOpcode("HLT")>> }

SystemChunks ==
  { Ins("NOP", 0, 0, 0), Ins("BKPT", 0, 0, 0), Ins("INC", 0, 0, 0),
    Ins("LOAD", 0, 9, 0), Ins("PRTS", 0, 0, 0), Ins("IGL", 0, 0, 0),
    <<U8FromOpcode("HLT")>> }

\* every byte that is the code of no catalog opcode, after nothing or after
\* one instruction
IllegalCodes ==
  {prefix \o <<byte>> :
     prefix \in {<<>>, Ins("NOP", 0, 0, 0), Ins("LOAD", 3, 1, 1)},
     byte \in (0..255) \ CatalogBytes}

\* buffers run() refuses or cannot read: a wrong magic, fewer than four
\* bytes, a header cut before or inside the length field, a length past
\* the end of the buffer
Hlt == Ins("HLT", 0, 0, 0)
WithMagic(m, program) == m \o SubSeq(program, Len(m) + 1, Len(program))
BadBuffers ==
  {WithMagic(m, Container(<<>>, code)) :
     m \in {<<76, 85, 77, 74>>, <<108, 85, 77, 73>>, <<0, 0, 0, 0>>, <<76, 85, 77, 73>>},
     code \in {<<>>, Hlt, Ins("LOAD", 0, 9, 0) \o Hlt}}
  \cup {<<>>, <<76, 85, 77>>, <<1, 2, 3, 4>>, <<1, 2, 3, 4, 5>>,
        LUMI_HEADER_PREFIX, SubSeq(Container(<<>>, Hlt), 1, 67),
        get_lumi_header(3) \o <<72, 0>>}

Greeting == <<72, 105, 0, 33>>

\* a machine from initialize() whose embedder set the program and, through
\* the public fields, registers 0 and 2 and the heap
Machine(program, r0, r2, heap) ==
  [initialize EXCEPT !.program = program, !.registers[0] = r0,
                     !.registers[2] = r2, !.heap = heap]

\* the families of containers: the instructions their code is drawn from,
\* their read-only blobs, and the values the embedder gives registers 0, 2
Families ==
  { [chunks |-> MemoryChunks, ros |-> {<<>>}, r0s |-> {8}, r2 |-> 6],
    [chunks |-> StackChunks, ros |-> {<<>>}, r0s |-> {0}, r2 |-> 0],
    [chunks |-> JumpChunks, ros |-> {<<>>}, r0s |-> {0, Target(<<>>, 1)}, r2 |-> 0],
    [chunks |-> SystemChunks, ros |-> {<<>>, Greeting}, r0s |-> {0}, r2 |-> 0],
    [chunks |-> LoopChunks, ros |-> {<<>>}, r0s |-> {0}, r2 |-> 0],
    [chunks |-> CompareChunks, ros |-> {<<>>}, r0s |-> {-7, 7}, r2 |-> 7] }

\* code for machines that watch register 0: instructions that change it,
\* instructions that leave it alone, and values on both sides of 2^24
WatchChunks ==
  { Ins("INC", 0, 0, 0), Ins("NOP", 0, 0, 0), Ins("LOAD", 0, 0, 9),
    <<U8FromOpcode("HLT")>> }
WatchedKey == <<"Register", 0>>
WatchedStarts == {9, Pow2(24)}

\* code for machines that do integer arithmetic on registers 0 and 2, with
\* operands of both signs, at both ends of the i32 range, and a zero divisor
ArithChunks ==
  { Ins("ADD", 0, 2, 1), Ins("SUB", 0, 2, 1), Ins("MUL", 0, 2, 1),
    Ins("DIV", 0, 2, 1), <<U8FromOpcode("HLT")>> }
ArithLeft == {7, -7, I32Min, I32Max}
ArithRight == {2, -1, 0}

\* code for machines that allocate: by the 8 of register 0, and by register
\* 2, which starts at zero or below and which DEC takes further down
AlocChunks ==
  { Ins("ALOC", 0, 0, 0), Ins("ALOC", 2, 0, 0), Ins("DEC", 2, 0, 0),
    <<U8FromOpcode("HLT")>> }
AlocSizes == {0, -3}

\* code for machines that store register 2 at the offset of register 0 in a
\* heap of eight bytes and load it back: offsets in and out of the heap, data
\* whose four bytes differ
StoreChunks ==
  { Ins("SETM", 0, 2, 0), Ins("LOADM", 0, 3, 0), Ins("LOADM", 0, 2, 0),
    <<U8FromOpcode("HLT")>> }
StoreHeap == <<1, 2, 3, 4, 5, 6, 7, 8>>
StoreOffsets == {0, 2, 4, 6, 9}
StoreData == {16909060, -2}

\* the assembler at rest, for runs of the interpreter alone
NoAssembly == [phase |-> "none"]

InitMachine ==
  /\ \/ \E f \in Families, n \in 0..MaxWords :
          \E ws \in [1..n -> f.chunks], ro \in f.ros, r0 \in f.r0s :
            vm = Machine(Container(ro, Flatten(ws)), r0, f.r2, <<>>)
     \/ \E code \in IllegalCodes, r0 \in {0, 7} :
          vm = Machine(Container(<<>>, code), r0, 0, <<>>)
     \/ \E n \in 0..MaxWords :
          \E ws \in [1..n -> ArithChunks], r0 \in ArithLeft, r2 \in ArithRight :
            vm = Machine(Container(<<>>, Flatten(ws)), r0, r2, <<>>)
     \/ \E n \in 0..MaxWords :
          \E ws \in [1..n -> AlocChunks], r2 \in AlocSizes :
            vm = Machine(Container(<<>>, Flatten(ws)), 8, r2, <<>>)
     \/ \E n \in 0..MaxWords :
          \E ws \in [1..n -> WatchChunks], r0 \in WatchedStarts :
            vm = add_watch_variable(
                   Machine(Container(<<>>, Flatten(ws)), r0, 0, <<>>), WatchedKey)
     \/ \E n \in 0..MaxWords :
          \E ws \in [1..n -> StoreChunks], r0 \in StoreOffsets, r2 \in StoreData :
            vm = Machine(Container(<<>>, Flatten(ws)), r0, r2, StoreHeap)
     \/ \E program \in BadBuffers, r0 \in {0, 7}, heap \in {<<>>, <<1, 2, 3, 4>>} :
          vm = Machine(program, r0, 0, heap)
  /\ hist = NoHist(vm)
  /\ is_done = None
  /\ run_pc = "idle"
  /\ in_step_mode = FALSE
  /\ returned = <<>>
  /\ overflow_checks \in BOOLEAN
  /\ asm = NoAssembly
  /\ source = <<>>
  /\ asm_pc = "none"
  /\ asm_result = None
  /\ asm_again = None

\* containers whose code runs straight into an HLT, or jumps to one
HaltChunks ==
  { Ins("NOP", 0, 0, 0), Ins("INC", 0, 0, 0), Ins("LOAD", 0, 9, 0),
    Ins("DJMP", Target(Greeting, 2), 0, 0), <<U8FromOpcode("HLT")>> }

InitHalt ==
  /\ \E n \in 0..MaxWords : \E ws \in [1..n -> HaltChunks] :
       vm = Machine(Container(Greeting, Flatten(ws)), 0, 0, <<>>)
  /\ hist = NoHist(vm)
  /\ is_done = None
  /\ run_pc = "idle"
  /\ in_step_mode = FALSE
  /\ returned = <<>>
  /\ overflow_checks \in BOOLEAN
  /\ asm = NoAssembly
  /\ source = <<>>
  /\ asm_pc = "none"
  /\ asm_result = None
  /\ asm_again = None

Init == InitMachine

Next == RunStart \/ ExecuteInstruction

\* the interpreter run on a container
Spec == Init /\ [][Next]_vars

\* run() is a sequential loop: it keeps taking its next step
HaltSpec == InitHalt /\ [][Next]_vars /\ WF_vars(Next)
----------------------------------------------------------------------------
(* The sources the assembler is run on, and the machine its output is     *)
(* loaded into                                                            *)

OpcodePair(text) == Pair("opcode", text, 0, "", <<>>)
RegisterPair(reg_num) == Pair("operand", "", reg_num, "register", <<>>)
IntegerPair(value) == Pair("operand", "", value, "int_immediate", <<>>)
FloatPair(value) == Pair("operand", "", value, "float_immediate", <<>>)
StringPair == Pair("operand", "", 0, "string_immediate", <<>>)
LabelUsagePair(name) == Pair("operand", name, 0, "label_usage", <<>>)
LabelPair(name) == Pair("label_declaration", name, 0, "", <<>>)
DirectivePair(text) == Pair("directive", text, 0, "", <<>>)
InstructionPair(tokens) == Pair("instruction", "", 0, "", tokens)
DataDeclarationPair(tokens) == Pair("data_declaration", "", 0, "", tokens)
EOI == Pair("EOI", "", 0, "", <<>>)

\* lines of a code section, as the top-level pairs they parse to:
\*   hlt | nop | inc $0 | load $0 #5 | add $0 $0 $0 | l: nop | l: | djmp @l
CodeLines ==
  { <<InstructionPair(<<OpcodePair("HLT")>>)>>,
    <<InstructionPair(<<OpcodePair("NOP")>>)>>,
    <<InstructionPair(<<OpcodePair("INC"), RegisterPair(0)>>)>>,
    <<InstructionPair(<<OpcodePair("LOAD"), RegisterPair(0), IntegerPair(5)>>)>>,
    <<InstructionPair(<<OpcodePair("ADD"), RegisterPair(0), RegisterPair(0),
                        RegisterPair(0)>>)>>,
    <<InstructionPair(<<LabelPair("l"), OpcodePair("NOP")>>)>>,
    <<LabelPair("l")>>,
    <<InstructionPair(<<OpcodePair("DJMP"), LabelUsagePair("l")>>)>> }

\* data sections:  (nothing) | c: .integer #7
DataSections ==
  { <<>>,
    <<DataDeclarationPair(<<LabelPair("c"), DirectivePair(".integer"), IntegerPair(7)>>)>> }

\* lines of the sources that exercise pass 1:
\*   .data | .text | l: | .wrong | x: .wrong #1 | .integer #7 |
\*   c: .integer #7 | hlt
SectionLines ==
  { <<DirectivePair(".data")>>,
    <<DirectivePair(".text")>>,
    <<LabelPair("l")>>,
    <<DirectivePair(".wrong")>>,
    <<DataDeclarationPair(<<LabelPair("x"), DirectivePair(".wrong"), IntegerPair(1)>>)>>,
    <<DataDeclarationPair(<<DirectivePair(".integer"), IntegerPair(7)>>)>>,
    <<DataDeclarationPair(<<LabelPair("c"), DirectivePair(".integer"), IntegerPair(7)>>)>>,
    <<InstructionPair(<<OpcodePair("HLT")>>)>> }

\* a subroutine called by its label. Pass 1 gives a label of the code
\* section the offset 65 + 4 * (index of its record), and every instruction
\* line leaves two records, so `f` below resolves to 81 while the line it
\* stands on is assembled at 74; the body of the subroutine is written at
\* 81, where the CALL arrives, and its PUSH and POP, two bytes each in the
\* container and four for the machine, are followed by two NOPs each:
\*   .data | .text | call @f | f: hlt | load $0 #5
\*         | push $0 | nop | nop | pop $1 | nop | nop | ret
CallSource ==
  Ok(<<DirectivePair(".data"), DirectivePair(".text"),
       InstructionPair(<<OpcodePair("CALL"), LabelUsagePair("f")>>),
       InstructionPair(<<LabelPair("f"), OpcodePair("HLT")>>),
       InstructionPair(<<OpcodePair("LOAD"), RegisterPair(0), IntegerPair(5)>>),
       InstructionPair(<<OpcodePair("PUSH"), RegisterPair(0)>>),
       InstructionPair(<<OpcodePair("NOP")>>),
       InstructionPair(<<OpcodePair("NOP")>>),
       InstructionPair(<<OpcodePair("POP"), RegisterPair(1)>>),
       InstructionPair(<<OpcodePair("NOP")>>),
       InstructionPair(<<OpcodePair("NOP")>>),
       InstructionPair(<<OpcodePair("RET")>>), EOI>>)

\* further sources: text the parser rejects, a section opened by `.code`,
\* a register beyond a byte, a fourth operand, an .asciiz and a .float
\* constant with and without a label, an .integer constant as an
\* instruction line, an unknown directive with an operand in the code
\* section, a `.bss` section, an INC without its register; and the
\* subroutine
FixedSources ==
  { Err("ParseError"), CallSource,
    Ok(<<DirectivePair(".data"), DirectivePair(".code"),
         InstructionPair(<<OpcodePair("HLT")>>), EOI>>),
    Ok(<<DirectivePair(".data"), DirectivePair(".text"),
         InstructionPair(<<OpcodePair("INC"), RegisterPair(256)>>), EOI>>),
    Ok(<<DirectivePair(".data"), DirectivePair(".text"),
         InstructionPair(<<OpcodePair("ADD"), RegisterPair(0), RegisterPair(0),
                           RegisterPair(0), RegisterPair(0)>>), EOI>>),
    Ok(<<DirectivePair(".data"),
         DataDeclarationPair(<<LabelPair("s"), DirectivePair(".asciiz"), StringPair>>),
         DirectivePair(".text"), InstructionPair(<<OpcodePair("HLT")>>), EOI>>),
    Ok(<<DirectivePair(".data"),
         DataDeclarationPair(<<LabelPair("f"), DirectivePair(".float"), FloatPair(2)>>),
         DirectivePair(".text"), InstructionPair(<<OpcodePair("HLT")>>), EOI>>),
    Ok(<<DirectivePair(".data"),
         DataDeclarationPair(<<DirectivePair(".asciiz"), StringPair>>),
         DirectivePair(".text"), InstructionPair(<<OpcodePair("HLT")>>), EOI>>),
    Ok(<<DirectivePair(".data"),
         DataDeclarationPair(<<DirectivePair(".float"), FloatPair(2)>>),
         DirectivePair(".text"), InstructionPair(<<OpcodePair("HLT")>>), EOI>>),
    Ok(<<DirectivePair(".data"),
         InstructionPair(<<DirectivePair(".integer"), IntegerPair(7)>>),
         DirectivePair(".text"), InstructionPair(<<OpcodePair("HLT")>>), EOI>>),
    Ok(<<DirectivePair(".data"), DirectivePair(".text"),
         InstructionPair(<<DirectivePair(".wrong"), IntegerPair(1)>>),
         InstructionPair(<<OpcodePair("HLT")>>), EOI>>),
    Ok(<<DirectivePair(".data"), DirectivePair(".bss"), DirectivePair(".text"),
         InstructionPair(<<OpcodePair("HLT")>>), EOI>>),
    Ok(<<DirectivePair(".data"), DirectivePair(".text"),
         InstructionPair(<<OpcodePair("INC")>>),
         InstructionPair(<<OpcodePair("HLT")>>), EOI>>) }

Source(data, lines) ==
  Ok(<<DirectivePair(".data")>> \o data \o <<DirectivePair(".text")>> \o Flatten(lines)
       \o <<EOI>>)

InitAsm ==
  /\ \/ \E data \in DataSections, n \in 0..MaxLines : \E lines \in [1..n -> CodeLines] :
          source = Source(data, lines)
     \/ \E n \in 0..MaxLines : \E lines \in [1..n -> SectionLines] :
          source = Ok(Flatten(lines) \o <<EOI>>)
     \/ source \in FixedSources
  /\ asm = AssemblerNew
  /\ asm_pc = "idle"
  /\ asm_result = None
  /\ asm_again = None
  /\ vm = initialize
  /\ hist = NoHist(initialize)
  /\ is_done = None
  /\ run_pc = "unloaded"
  /\ in_step_mode = FALSE
  /\ returned = <<>>
  /\ overflow_checks \in BOOLEAN

\* a call of Assembler::assemble on the source
Assemble ==
  /\ asm_pc = "idle"
  /\ \E r \in {assemble(asm, source)} :
       /\ asm' = r.asm
       /\ asm_result' = r.result
  /\ asm_pc' = "returned"
  /\ UNCHANGED <<source, asm_again, overflow_checks, vmVars>>

\* the embedder hands the assembled container to a fresh machine:
\* `vm.program = bytecode`
LoadProgram ==
  /\ asm_pc = "returned"
  /\ asm_result.ok
  /\ run_pc = "unloaded"
  /\ vm' = [vm EXCEPT !.program = asm_result.value]
  /\ hist' = NoHist(vm')
  /\ run_pc' = "idle"
  /\ UNCHANGED <<is_done, in_step_mode, returned, overflow_checks, asmVars>>

\* a second call of Assembler::assemble, on the same Assembler and the same
\* source, by an embedder that keeps its assembler (as the REPL does for
\* `.assemble`)
AssembleAgain ==
  /\ asm_pc = "returned"
  /\ run_pc = "unloaded"
  /\ \E r \in {assemble(asm, source)} :
       /\ asm' = r.asm
       /\ asm_again' = r.result
  /\ asm_pc' = "repeated"
  /\ UNCHANGED <<source, asm_result, overflow_checks, vmVars>>

NextAsm == Assemble \/ AssembleAgain \/ LoadProgram \/ RunStart \/ ExecuteInstruction

\* the assembler, and the interpreter on what it assembled
AsmSpec == InitAsm /\ [][NextAsm]_vars

----------------------------------------------------------------------------
(* Source texts for the legacy assembler *)

DirectiveLine(name, operand) ==
  Line(TRUE, AssemblerInstruction(NoToken, Directive(name), NoToken, operand, NoToken, NoToken))
InstructionLine(label, opcode, operand_1, operand_2, operand_3) ==
  Line(TRUE, AssemblerInstruction(label, NoToken, Op(opcode), operand_1, operand_2, operand_3))
\* a line such as `%%%`
RejectedLine == Line(FALSE, EmptyInstruction)

\* .data | .code | hlt | load $0 #5 | load $0 #5 #6 | djmp @l | l: hlt |
\* c: .integer #300 | %%%
LegacyLines ==
  { DirectiveLine("data", NoToken),
    DirectiveLine("code", NoToken),
    InstructionLine(NoToken, "HLT", NoToken, NoToken, NoToken),
    InstructionLine(NoToken, "LOAD", Register(0), IntegerOperand(5), NoToken),
    InstructionLine(NoToken, "LOAD", Register(0), IntegerOperand(5), IntegerOperand(6)),
    InstructionLine(NoToken, "DJMP", LabelUsage("l"), NoToken, NoToken),
    InstructionLine(LabelDeclaration("l"), "HLT", NoToken, NoToken, NoToken),
    Line(TRUE, AssemblerInstruction(LabelDeclaration("c"), Directive("integer"), NoToken,
                                    IntegerOperand(300), NoToken, NoToken)),
    RejectedLine }

\* what a text starts with: nothing, the two section headers, or the
\* headers around a constant
LegacyPrefixes ==
  { <<>>,
    <<DirectiveLine("data", NoToken), DirectiveLine("code", NoToken)>>,
    <<DirectiveLine("data", NoToken),
      Line(TRUE, AssemblerInstruction(LabelDeclaration("t"), Directive("integer"), NoToken,
                                      IntegerOperand(300), NoToken, NoToken)),
      DirectiveLine("code", NoToken)>> }

InitLegacy ==
  /\ \E prefix \in LegacyPrefixes, n \in 0..MaxLines : \E lines \in [1..n -> LegacyLines] :
       source = prefix \o lines
  /\ asm = AssemblerNew
  /\ asm_pc = "idle"
  /\ asm_result = None
  /\ asm_again = None
  /\ vm = initialize
  /\ hist = NoHist(initialize)
  /\ is_done = None
  /\ run_pc = "unloaded"
  /\ in_step_mode = FALSE
  /\ returned = <<>>
  /\ overflow_checks = FALSE

\* a call of the legacy Assembler::assemble on the text
LegacyAssemble ==
  /\ asm_pc = "idle"
  /\ \E r \in {legacy_assemble(asm, source)} :
       /\ asm' = r.asm
       /\ asm_result' = r.result
  /\ asm_pc' = "returned"
  /\ UNCHANGED <<source, asm_again, overflow_checks, vmVars>>

NextLegacy == LegacyAssemble

\* the legacy assembler on source texts
LegacySpec == InitLegacy /\ [][NextLegacy]_vars

----------------------------------------------------------------------------
(* The legacy interpreter (src/src/vm) *)

\* VM::new: the fields of the machine above; the legacy machine has no table
\* of handlers, and its watch variables hold the i32 last seen
legacy_new == new

\* a legacy machine whose embedder set the program and, through the public
\* fields, registers 0 and 2 and the heap
LegacyMachine(program, r0, r2, heap) ==
  [legacy_new EXCEPT !.program = program, !.registers[0] = r0,
                     !.registers[2] = r2, !.heap = heap]

\* decode_opcode of the legacy machine
legacy_decode_opcode(v) == [opcode |-> legacy_from_u8(At(v, 0)), vm |-> Adv(v, 1)]

\* the opcode the legacy execute_instruction decodes on machine v
LegacyFetched(v) ==
  IF UsizeGe(v.pc, Len(v.program)) THEN "none" ELSE legacy_from_u8(At(v, 0))

\* vm/memory.rs: LOAD reads a register byte and a 16-bit number
legacy_memory_execute_load(v) ==
  IF ~HasBytes(v, 3) \/ ~IsReg(At(v, 0)) THEN Panic(v)
  ELSE Ret([Adv(v, 3) EXCEPT !.registers[At(v, 0)] = U16At(v, 1)], Continue)

\* vm/memory.rs: LOADM slices heap[offset .. offset + 4], which panics past
\* the end, then reads the destination register and one more byte
legacy_memory_execute_load_memory(v) ==
  IF ~HasBytes(v, 1) \/ ~IsReg(At(v, 0)) THEN Panic(v)
  ELSE LET offset == v.registers[At(v, 0)]
       IN IF Huge(offset) \/ offset + 4 > Len(v.heap) THEN Panic(v)
          ELSE IF ~HasBytes(v, 3) \/ ~IsReg(At(v, 1)) THEN Panic(v)
          ELSE Ret([Adv(v, 3) EXCEPT
                      !.registers[At(v, 1)] = LEToI32(ReadHeap(v.heap, offset))],
                   Continue)

\* vm/memory.rs: SETM reads its two registers, leaves the offset unused and
\* pushes the four bytes of the data at the end of the heap
legacy_memory_execute_set_memory(v) ==
  IF ~HasBytes(v, 2) \/ ~IsReg(At(v, 0)) \/ ~IsReg(At(v, 1)) THEN Panic(v)
  ELSE Ret([Adv(v, 2) EXCEPT !.heap = @ \o I32ToLE(v.registers[At(v, 1)])], Continue)

\* vm/arithmetic.rs: three registers, the plain operator
LegacyArith3(v, overflows, value) ==
  IF ~RegsOk2(v) THEN Panic(v) ELSE Arith3(v, overflows, value)
legacy_arithmetic_execute_add(v) ==
  LegacyArith3(v, AddOverflows(Reg1(v), Reg2(v)), WrappingAdd(Reg1(v), Reg2(v)))
legacy_arithmetic_execute_sub(v) ==
  LegacyArith3(v, SubOverflows(Reg1(v), Reg2(v)), WrappingSub(Reg1(v), Reg2(v)))
legacy_arithmetic_execute_mul(v) ==
  LegacyArith3(v, MulOverflows(Reg1(v), Reg2(v)), WrappingMul(Reg1(v), Reg2(v)))

\* vm/arithmetic.rs: INC adds one to the register, then reads 16 bits
legacy_arithmetic_execute_increment(v) ==
  IF ~HasBytes(v, 1) \/ ~IsReg(At(v, 0)) THEN Panic(v)
  ELSE IF v.registers[At(v, 0)] = I32Max /\ overflow_checks THEN Panic(v)
  ELSE IF ~HasBytes(v, 3) THEN Panic(v)
  ELSE Ret([Adv(v, 3) EXCEPT !.registers[At(v, 0)] = WrappingAdd(@, 1)], Continue)

\* vm/comparison.rs: two registers, the flag, one byte to complete the
\* instruction
LegacyCompare(v, holds) ==
  IF ~RegsOk2(v) THEN Panic(v) ELSE Compare(v, holds)

\* vm/control.rs: JMPE moves pc to the register's value when the flag is
\* set, and reads 16 bits from wherever pc then is
legacy_control_execute_jump_if_equal(v) ==
  IF ~HasBytes(v, 1) \/ ~IsReg(At(v, 0)) THEN Panic(v)
  ELSE LET target == v.registers[At(v, 0)]
           jumped == IF v.equal_flag THEN [v EXCEPT !.pc = target] ELSE Adv(v, 1)
       IN IF ~HasBytes(jumped, 2) THEN Panic(v)
          ELSE Ret(Adv(jumped, 2), Continue)

\* the value a watch reads: heap[addr] as i32, registers[index]
LegacyWatchReadable(v, key) ==
  IF key[1] = "Memory" THEN key[2] < Len(v.heap) ELSE key[2] < REGISTER_COUNT
LegacyWatchCurrent(v, key) ==
  IF key[1] = "Memory" THEN v.heap[key[2] + 1] ELSE v.registers[key[2]]

\* vm/system.rs: add_watch_variable
legacy_add_watch_variable(v, key) ==
  [v EXCEPT !.watch_variables =
     [k \in DOMAIN @ \cup {key} |-> IF k = key THEN LegacyWatchCurrent(v, key) ELSE @[k]]]

\* the watch loop at the head of the legacy execute_instruction
legacy_check_watch_variables(v) ==
  [v EXCEPT
     !.watch_variables = [key \in DOMAIN @ |-> LegacyWatchCurrent(v, key)],
     !.watch_log =
       IF \A key \in DOMAIN v.watch_variables :
            LegacyWatchCurrent(v, key) = v.watch_variables[key]
       THEN @
       ELSE Append(@, {key \in DOMAIN v.watch_variables :
                         LegacyWatchCurrent(v, key) # v.watch_variables[key]})]

\* the arms of the match in the legacy execute_instruction for the opcodes
\* the legacy programs below are made of
LegacyOpcodes ==
  { "HLT", "BKPT", "LOAD", "ADD", "SUB", "MUL", "EQ", "NEQ", "GT", "LT", "GTE",
    "LTE", "JMPE", "INC", "LOADM", "SETM", "NOP", "IGL" }
LegacyHandler(opcode, v) ==
  CASE opcode = "HLT" -> Ret(v, Done(0))
    [] opcode = "BKPT" -> IF ~HasBytes(v, 3) THEN Panic(v) ELSE Ret(Adv(v, 3), BreakpointHit)
    [] opcode = "LOAD" -> legacy_memory_execute_load(v)
    [] opcode = "ADD" -> legacy_arithmetic_execute_add(v)
    [] opcode = "SUB" -> legacy_arithmetic_execute_sub(v)
    [] opcode = "MUL" -> legacy_arithmetic_execute_mul(v)
    [] opcode = "EQ" -> LegacyCompare(v, Reg1(v) = Reg2(v))
    [] opcode = "NEQ" -> LegacyCompare(v, Reg1(v) # Reg2(v))
    [] opcode = "GT" -> LegacyCompare(v, Reg1(v) > Reg2(v))
    [] opcode = "LT" -> LegacyCompare(v, Reg1(v) < Reg2(v))
    [] opcode = "GTE" -> LegacyCompare(v, Reg1(v) >= Reg2(v))
    [] opcode = "LTE" -> LegacyCompare(v, Reg1(v) <= Reg2(v))
    [] opcode = "JMPE" -> legacy_control_execute_jump_if_equal(v)
    [] opcode = "INC" -> legacy_arithmetic_execute_increment(v)
    [] opcode = "LOADM" -> legacy_memory_execute_load_memory(v)
    [] opcode = "SETM" -> legacy_memory_execute_set_memory(v)
    [] opcode = "NOP" -> IF ~HasBytes(v, 3) THEN Panic(v) ELSE Ret(Adv(v, 3), Continue)
    [] opcode = "IGL" -> Ret(v, Done(1))

\* the legacy execute_instruction: Done(1) at or past the end of the
\* program; else the watch check, the decode and the arm of the opcode
legacy_execute_instruction(v) ==
  IF UsizeGe(v.pc, Len(v.program)) THEN Ret(v, Done(1))
  ELSE IF \E key \in DOMAIN v.watch_variables : ~LegacyWatchReadable(v, key) THEN Panic(v)
  ELSE LET d == legacy_decode_opcode(legacy_check_watch_variables(v))
       IN LegacyHandler(d.opcode, d.vm)

\* the legacy run() up to its loop: the Start event, the header check
\* (Crash{1} and return on a bad magic), pc moved to the code start,
\* ro_data read
LegacyRunStart ==
  /\ run_pc = "idle"
  /\ LET started == [vm EXCEPT !.events = Append(@, Event("Start", 0))]
         crashed == [started EXCEPT !.events = Append(@, Event("Crash", 1))]
     IN IF Len(vm.program) < 4
        THEN /\ vm' = started
             /\ run_pc' = "panicked"
             /\ returned' = returned
        ELSE IF SubSeq(vm.program, 1, 4) # LUMI_HEADER_PREFIX
        THEN /\ vm' = crashed
             /\ run_pc' = "returned"
             /\ returned' = crashed.events
        ELSE IF ~CanReadRoData(vm.program)
        THEN /\ vm' = started
             /\ run_pc' = "panicked"
             /\ returned' = returned
        ELSE /\ vm' = read_ro_data(
                        [started EXCEPT !.pc = LUMI_HEADER_LENGTH + 1 + 4
                                                 + get_starting_offset(vm.program)])
             /\ run_pc' = "loop"
             /\ returned' = returned
  /\ UNCHANGED <<is_done, in_step_mode, hist, overflow_checks, asmVars>>

\* the value run() pushes when its loop ends
legacy_push_graceful_stop(v, code) ==
  [v EXCEPT !.events = Append(@, Event("GracefulStop", code))]

\* a run() that enters the prompt at a breakpoint only
prompt_at_breakpoint_only(status, stepping) ==
  IF status.kind = "BreakpointHit" THEN "prompt" ELSE "loop"

\* the match of run() on a status that does not end the loop: where the
\* call goes next, to system_execute_breakpoint or round the loop
legacy_run_match(status, stepping) ==
  IF status.kind = "BreakpointHit" \/ stepping THEN "prompt" ELSE "loop"

\* one turn of the loop of the legacy run(): execute_instruction and the
\* match on its status, up to the call of system_execute_breakpoint (Continue
\* in step mode, BreakpointHit) or the end of the loop (Done)
LegacyExecuteInstruction ==
  /\ run_pc = "loop"
  /\ hist.n < MaxSteps
  /\ \E r \in {legacy_execute_instruction(vm)} :
       /\ hist' = [hist EXCEPT !.n = @ + 1, !.pre = vm, !.prev = hist.pre,
                               !.opcode = LegacyFetched(vm),
                               !.status = r.status,
                               !.executed = @ \cup ({LegacyFetched(vm)} \ {"none"}),
                               !.answer = "none",
                               !.stepping = in_step_mode]
       /\ IF r.status.kind = "Panic"
          THEN /\ vm' = r.vm
               /\ run_pc' = "panicked"
               /\ UNCHANGED <<is_done, returned>>
          ELSE IF r.status.kind = "Done"
          THEN /\ vm' = legacy_push_graceful_stop(r.vm, r.status.code)
               /\ is_done' = Some(r.status.code)
               /\ returned' = vm'.events
               /\ run_pc' = "returned"
          ELSE /\ vm' = r.vm
               /\ run_pc' = legacy_run_match(r.status, in_step_mode)
               /\ UNCHANGED <<is_done, returned>>
  /\ UNCHANGED <<in_step_mode, overflow_checks, asmVars>>

\* the lines the host types at the prompt: `c`, `s`, `q`, `w` followed by
\* `register 0`, `memory 0` or `register 32`, each after nothing, after a
\* line that changes nothing (an `i r 0`, an unknown watch type, any other
\* text) or after an `i r 32`
HostLines == {"c", "s", "q", "w"}
WatchKeys == {<<"Register", 0>>, <<"Memory", 0>>, <<"Register", 32>>}
InspectLines == {"none", "i r 0", "i r 32"}

\* system_execute_breakpoint, called by run(): `c` and a registered watch
\* return false, `s` returns true, `q` exits the process; an inspection or
\* a watch of what the machine does not hold panics
LegacyBreakpoint ==
  /\ run_pc = "prompt"
  /\ \E before \in InspectLines, line \in HostLines, key \in WatchKeys :
       /\ line # "w" => key = <<"Register", 0>>
       /\ hist' = [hist EXCEPT !.answer = IF before = "i r 32" THEN "i" ELSE line]
       /\ IF before = "i r 32" \/ (line = "w" /\ ~LegacyWatchReadable(vm, key))
          THEN /\ run_pc' = "panicked"
               /\ UNCHANGED <<vm, in_step_mode>>
          ELSE IF line = "q"
          THEN /\ run_pc' = "exited"
               /\ UNCHANGED <<vm, in_step_mode>>
          ELSE /\ run_pc' = "loop"
               /\ in_step_mode' = (line = "s")
               /\ vm' = IF line = "w" THEN legacy_add_watch_variable(vm, key) ELSE vm
  /\ UNCHANGED <<is_done, returned, overflow_checks, asmVars>>

\* the legacy programs: stores and loads on a heap of eight bytes, with the
\* offset in register 0 and the data in register 2
LegacyMemoryChunks ==
  { <<U8FromOpcode("SETM"), 0, 2>>, Ins("LOADM", 0, 3, 0), Ins("LOADM", 0, 2, 0),
    <<U8FromOpcode("HLT")>> }

\* comparisons of register 1 with itself and with register 2, and jumps to
\* the second instruction and to two bytes before it
LegacyJumpChunks ==
  { Ins("EQ", 1, 1, 0), Ins("NEQ", 1, 1, 0), Ins("GT", 2, 1, 0), Ins("LT", 2, 1, 0),
    Ins("GTE", 2, 1, 0), Ins("LTE", 2, 1, 0), Ins("JMPE", 0, 0, 0),
    <<U8FromOpcode("HLT")>> }
LegacyTargets == {Target(<<>>, 1), Target(<<>>, 1) - 2}

\* arithmetic on registers 0 and 2 into register 1
LegacyArithChunks ==
  { Ins("ADD", 0, 2, 1), Ins("SUB", 0, 2, 1), Ins("MUL", 0, 2, 1),
    <<U8FromOpcode("HLT")>> }

\* breakpoints among instructions that continue and instructions that stop
LegacyDebugChunks ==
  { Ins("BKPT", 0, 0, 0), Ins("INC", 0, 0, 0), Ins("NOP", 0, 0, 0),
    Ins("LOAD", 0, 9, 0), <<U8FromOpcode("HLT")>>, <<U8FromOpcode("IGL")>> }

InitLegacyVm ==
  /\ \/ \E n \in 0..MaxWords :
          \E ws \in [1..n -> LegacyMemoryChunks], r0 \in StoreOffsets, r2 \in StoreData :
            vm = LegacyMachine(Container(<<>>, Flatten(ws)), r0, r2, StoreHeap)
     \/ \E n \in 0..MaxWords :
          \E ws \in [1..n -> LegacyJumpChunks], r0 \in LegacyTargets :
            vm = LegacyMachine(Container(<<>>, Flatten(ws)), r0, 3, <<>>)
     \/ \E n \in 0..MaxWords :
          \E ws \in [1..n -> LegacyArithChunks], r0 \in ArithLeft, r2 \in ArithRight :
            vm = LegacyMachine(Container(<<>>, Flatten(ws)), r0, r2, <<>>)
     \/ \E n \in 0..MaxWords :
          \E ws \in [1..n -> LegacyDebugChunks], heap \in {<<>>, StoreHeap} :
            vm = LegacyMachine(Container(<<>>, Flatten(ws)), 0, 0, heap)
     \/ \E program \in {<<>>, <<76, 85, 77>>, <<76, 85, 77, 74>>, <<76, 85, 77, 73>>} :
          vm = LegacyMachine(program, 0, 0, <<>>)
  /\ hist = NoHist(vm)
  /\ is_done = None
  /\ run_pc = "idle"
  /\ in_step_mode = FALSE
  /\ returned = <<>>
  /\ overflow_checks \in BOOLEAN
  /\ asm = NoAssembly
  /\ source = <<>>
  /\ asm_pc = "none"
  /\ asm_result = None
  /\ asm_again = None

NextLegacyVm == LegacyRunStart \/ LegacyExecuteInstruction \/ LegacyBreakpoint

\* the legacy interpreter run on a container, with a host at its prompt
LegacyVmSpec == InitLegacyVm /\ [][NextLegacyVm]_vars

----------------------------------------------------------------------------
(* Lookups in the catalog *)

\* the names looked up: every spelling of the model, in upper case, in lower
\* case and capitalised, and the empty name; the bytes: every u8
LookupNames == CaseDomain \cup {p[2] : p \in CasePairs} \cup {""}
LookupBytes == 0..255

InitLookup ==
  /\ \/ \E name \in LookupNames : source = [kind |-> "name", value |-> name]
     \/ \E byte \in LookupBytes : source = [kind |-> "byte", value |-> byte]
  /\ asm = AssemblerNew
  /\ asm_pc = "lookup"
  /\ asm_result = None
  /\ asm_again = None
  /\ vm = initialize
  /\ hist = NoHist(initialize)
  /\ is_done = None
  /\ run_pc = "unloaded"
  /\ in_step_mode = FALSE
  /\ returned = <<>>
  /\ overflow_checks = FALSE

\* Opcode::from(name) or Opcode::from(byte), of the current and of the
\* legacy catalog, and the opcode's byte code
Lookup ==
  /\ asm_pc = "lookup"
  /\ asm_result' =
       IF source.kind = "name"
       THEN [current |-> OpcodeFromStr(source.value),
             legacy |-> legacy_from_str(source.value),
             byte |-> U8FromOpcode(OpcodeFromStr(source.value))]
       ELSE [current |-> OpcodeFromU8(source.value),
             legacy |-> legacy_from_u8(source.value),
             byte |-> U8FromOpcode(OpcodeFromU8(source.value))]
  /\ asm_pc' = "looked"
  /\ UNCHANGED <<asm, source, asm_again, overflow_checks, vmVars>>

NextLookup == Lookup

\* the lookups on names and bytes
LookupSpec == InitLookup /\ [][NextLookup]_vars

----------------------------------------------------------------------------
(* Properties of the interpreter *)

Returned == run_pc = "returned"
LastEvent == returned[Len(returned)]
Linear == hist.executed \cap ControlTransfer = {}

\* where run() starts the program counter of a container
CodeStartOf(program) == LUMI_HEADER_LENGTH + 1 + 4 + get_starting_offset(program)

Assembled == asm_pc = "returned" /\ asm_result.ok
AssembledProgram == from_pairs(source.value).value

\* the instructions the second pass emitted for `instructions`, the first
\* of them placed at offset `at` of the container: where each starts and
\* the bytes emitted for it
RECURSIVE Layout(_, _, _)
Layout(instructions, at, symbols) ==
  IF instructions = <<>> THEN <<>>
  ELSE IF is_directive(Head(instructions)) \/ ~is_opcode(Head(instructions))
  THEN Layout(Tail(instructions), at, symbols)
  ELSE <<[start |-> at, bytes |-> to_bytes(Head(instructions), symbols),
          instruction |-> Head(instructions)]>>
         \o Layout(Tail(instructions), at + Len(to_bytes(Head(instructions), symbols)),
                   symbols)

Emitted == Layout(AssembledProgram, CodeStartOf(asm_result.value), asm.symbols)
EmittedStarts == {Emitted[i].start : i \in DOMAIN Emitted}
EmittedAt(offset) == Emitted[CHOOSE i \in DOMAIN Emitted : Emitted[i].start = offset]

\* the offset in the container of the opcode byte of the instruction the
\* first declaration of `name` labels: the labelled instruction itself, or
\* the first one emitted after a label on a line of its own
RECURSIVE LabelledOffset(_, _, _, _)
LabelledOffset(instructions, at, symbols, name) ==
  IF instructions = <<>> THEN -1
  ELSE IF Head(instructions).label = LabelDeclaration(name) THEN at
  ELSE LabelledOffset(Tail(instructions),
         IF is_directive(Head(instructions)) \/ ~is_opcode(Head(instructions)) THEN at
         ELSE at + Len(to_bytes(Head(instructions), symbols)),
         symbols, name)

\* C1: on a container produced by assemble(), every opcode fetch of a run
\* that has transferred no control is at the first byte of an emitted
\* instruction, and an instruction that transfers no control advances pc by
\* the number of bytes the assembler emitted for it.
C1_FetchesAtEmittedInstructions ==
  Assembled =>
    /\ (run_pc = "loop" /\ Linear /\ vm.pc < Len(vm.program)) => vm.pc \in EmittedStarts
    /\ (/\ hist.n > 0
        /\ hist.opcode \notin ControlTransfer \cup {"none"}
        /\ hist.status.kind # "Panic"
        /\ hist.pre.pc \in EmittedStarts)
         => vm.pc = hist.pre.pc + Len(EmittedAt(hist.pre.pc).bytes)

\* C2: in an assembled container, the address emitted for a reference @L to
\* a declared code label L is the offset in the container of the opcode
\* byte of the instruction L labels, wherever the reference stands.
C2_ReferenceIsLabelledOffset ==
  Assembled =>
    \A i \in DOMAIN Emitted :
      (/\ Emitted[i].instruction.operand_1.type = "LabelUsage"
       /\ HasSymbol(asm.symbols, Emitted[i].instruction.operand_1.name))
        => LEToI32(SubSeq(Emitted[i].bytes, 2, 5))
             = LabelledOffset(AssembledProgram, CodeStartOf(asm_result.value),
                              asm.symbols, Emitted[i].instruction.operand_1.name)

\* C3: when execution that has taken no jump arrives at an HLT opcode, run()
\* returns, the last event of its log is GracefulShutdown{0}, and pc is one
\* byte past the HLT opcode.
C3_HltEndsRun ==
  (run_pc = "loop" /\ Linear /\ Fetched(vm) = "HLT")
    ~> (/\ Returned
        /\ hist.opcode = "HLT"
        /\ LastEvent = Event("GracefulShutdown", 0)
        /\ vm.pc = hist.pre.pc + 1)

C3_Witness ==
  /\ Returned
  /\ hist.opcode = "HLT"
  /\ hist.n = MaxWords
  /\ Linear
  /\ LastEvent = Event("GracefulShutdown", 0)

\* the offset LOADM / SETM on machine v takes from its first operand
\* register, and whether the 4 bytes from it lie inside the heap
OffsetRegisterValue(v) == v.registers[At(v, 1)]
RangeInsideHeap(v, offset) == offset >= 0 /\ offset + 4 <= Len(v.heap)

C5_TerminalEventMatchesStatus ==
  (Returned /\ hist.n > 0)
  => LastEvent = Event(IF hist.status.kind = "Crash" THEN "Crash"
                       ELSE "GracefulShutdown", hist.status.code)

\* a buffer of four bytes or more that does not start with "LUMI"
BadMagic(program) ==
  /\ Len(program) >= 4
  /\ \E i \in 1..4 : program[i] # <<76, 85, 77, 73>>[i]

\* C6: run() on a buffer whose first four bytes are not the magic returns
\* exactly [Start, Crash{1}], executes no instruction and leaves registers,
\* pc, heap and stack as they were.
C6_BadMagicRefused ==
  (run_pc # "idle" /\ BadMagic(vm.program))
  => /\ Returned
     /\ returned = <<Event("Start", 0), Event("Crash", 1)>>
     /\ hist.n = 0
     /\ vm.registers = hist.pre.registers
     /\ vm.pc = hist.pre.pc
     /\ vm.heap = hist.pre.heap
     /\ vm.stack = hist.pre.stack

C6_Witness ==
  /\ Returned
  /\ BadMagic(vm.program)
  /\ vm.registers[0] = 7
  /\ vm.heap # <<>>
  /\ Len(vm.program) > LUMI_HEADER_LENGTH + 1 + 4

\* C7: between two instructions sp is the number of values on the stack,
\* whatever PUSH, POP, CALL and RET the run has executed.
C7_SpIsStackLength ==
  (/\ run_pc \in {"loop", "returned"}
   /\ hist.executed \subseteq {"PUSH", "POP", "CALL", "RET"})
  => vm.sp = Len(vm.stack)

\* C8: at every opcode fetch pc is at least the code start and at most the
\* length of the program.
C8_FetchInsideCode ==
  run_pc = "loop" => /\ CodeStartOf(vm.program) <= vm.pc
                     /\ vm.pc <= Len(vm.program)

\* C9: BKPT (with its three padding bytes in the program) advances pc by 4,
\* yields BreakpointHit, and the run goes on.
C9_BreakpointContinues ==
  (hist.opcode = "BKPT" /\ HasBytes(hist.pre, 4))
  => /\ hist.status = BreakpointHit
     /\ vm.pc = hist.pre.pc + 4
     /\ run_pc = "loop"

\* C10: a byte that is the code of no catalog opcode decodes to IGL, and
\* executing it ends the run with Done(1), last event GracefulShutdown{1},
\* pc one byte past it and all registers as they were.
C10_UnknownByteIsIllegal ==
  (hist.opcode # "none" /\ At(hist.pre, 0) \notin CatalogBytes)
  => /\ hist.opcode = "IGL"
     /\ hist.status = Done(1)
     /\ Returned
     /\ LastEvent = Event("GracefulShutdown", 1)
     /\ vm.pc = hist.pre.pc + 1
     /\ vm.registers = hist.pre.registers

C10_Witness ==
  /\ Returned
  /\ hist.n = 2
  /\ hist.opcode = "IGL"
  /\ At(hist.pre, 0) = 255
  /\ hist.pre.registers[3] = 257
  /\ vm.pc = hist.pre.pc + 1
----------------------------------------------------------------------------
(* Properties of the event log *)

IsPrefix(s, t) == Len(s) <= Len(t) /\ SubSeq(t, 1, Len(s)) = s
TerminalEvents == {"GracefulShutdown", "Crash"}

\* what C11 says of the log run() has returned
LogShape ==
  Returned =>
    /\ returned = vm.events
    /\ Len(returned) >= 2
    /\ returned[1].event_type = "Start"
    /\ \A i \in 2..Len(returned) : returned[i].event_type # "Start"
    /\ returned[Len(returned)].event_type \in TerminalEvents
    /\ \A i \in 1..(Len(returned) - 1) : returned[i].event_type \notin TerminalEvents

\* C11: the log run() returns on a fresh machine starts with exactly one
\* Start event, ends with exactly one terminal event (GracefulShutdown or
\* Crash) with nothing after it, and every step of the run only appends to
\* the log, so the events stand in the order they were emitted.
C11_LogIsOrdered == [](LogShape) /\ [][IsPrefix(vm.events, vm'.events)]_vars

C11_Witness ==
  /\ Returned
  /\ hist.n = 3
  /\ returned = <<Event("Start", 0), Event("GracefulShutdown", 0)>>

----------------------------------------------------------------------------
(* Properties of the assembler *)

\* the assembler after pass 1 of the source, and what pass 2 then emits
AfterFirstPhase == process_first_phase(AssemblerNew, AssembledProgram)
CodeBytes == process_second_phase(AfterFirstPhase, AssembledProgram).bytecode

\* C12: the container of a program that assembles starts with 'LUMI', holds
\* the length of the read-only blob little-endian in bytes 65..69, the blob
\* from byte 69 and the code right after it; the interpreter starts pc at
\* the first code byte and loads exactly the blob as ro_data.
C12_ContainerLayout ==
  Assembled =>
    /\ run_pc = "unloaded"
         => /\ SubSeq(asm_result.value, 1, 4) = <<76, 85, 77, 73>>
            /\ LEToI32(SubSeq(asm_result.value, 66, 69)) = Len(AfterFirstPhase.ro)
            /\ SubSeq(asm_result.value, 70, 69 + Len(AfterFirstPhase.ro))
                 = AfterFirstPhase.ro
            /\ SubSeq(asm_result.value, 70 + Len(AfterFirstPhase.ro),
                      Len(asm_result.value)) = CodeBytes
    /\ run_pc = "panicked" => hist.n > 0
    /\ (run_pc = "loop" /\ hist.n = 0)
         => /\ vm.pc = 69 + Len(AfterFirstPhase.ro)
            /\ vm.ro_data = AfterFirstPhase.ro

C12_Witness ==
  /\ Assembled
  /\ run_pc = "loop"
  /\ hist.n = 0
  /\ vm.ro_data = <<7, 0, 0, 0>>
  /\ vm.pc = 73
  /\ Len(vm.program) > 73

\* the zero-based index, among the instructions of the code section, of the
\* instruction the first declaration of `name` in the code section labels
\* (the labelled instruction itself, or the next one after a label on a
\* line of its own); -1 when the code section declares no such label
RECURSIVE CodeInstructionIndex(_, _, _, _)
CodeInstructionIndex(instructions, name, in_code, count) ==
  IF instructions = <<>> THEN -1
  ELSE IF in_code /\ Head(instructions).label = LabelDeclaration(name) THEN count
  ELSE CodeInstructionIndex(
         Tail(instructions), name,
         in_code \/ Head(instructions).directive = Directive("Text"),
         IF in_code /\ is_opcode(Head(instructions)) THEN count + 1 ELSE count)

\* C13: after pass 1 the offset stored for a code label is
\* HEADER_LENGTH + 1 + 4 * i, i being the zero-based index of the labelled
\* instruction among the code instructions.
C13_LabelOffsetIsFourTimesIndex ==
  (Assembled /\ run_pc = "unloaded") =>
    \A k \in DOMAIN asm.symbols :
      CodeInstructionIndex(AssembledProgram, asm.symbols[k].name, FALSE, 0) >= 0
        => asm.symbols[k].offset
             = Some(LUMI_HEADER_LENGTH + 1
                    + 4 * CodeInstructionIndex(AssembledProgram, asm.symbols[k].name,
                                               FALSE, 0))

\* the program pass 1 is run on, when the source parses and converts
Converts == source.ok /\ from_pairs(source.value).ok

\* the label names the operands of a program use, and those it declares
ReferencedLabels(instructions) ==
  { instructions[i].operand_1.name : i \in
      {j \in DOMAIN instructions : instructions[j].operand_1.type = "LabelUsage"} }
  \cup { instructions[i].operand_2.name : i \in
      {j \in DOMAIN instructions : instructions[j].operand_2.type = "LabelUsage"} }
  \cup { instructions[i].operand_3.name : i \in
      {j \in DOMAIN instructions : instructions[j].operand_3.type = "LabelUsage"} }
DeclaredLabels(instructions) ==
  { instructions[i].label.name : i \in
      {j \in DOMAIN instructions : instructions[j].label.type = "LabelDeclaration"} }

\* C14: assembling a program in which an instruction references a label
\* declared nowhere in it fails: assemble returns no container for it.
C14_UndeclaredReferenceFails ==
  (/\ asm_pc = "returned"
   /\ Converts
   /\ ReferencedLabels(AssembledProgram) \ DeclaredLabels(AssembledProgram) # {})
  => ~asm_result.ok

\* the records that declare a constant without a label
UnlabelledConstants(instructions) ==
  { k \in DOMAIN instructions :
      /\ ~is_label(instructions[k])
      /\ instructions[k].directive.type = "Directive"
      /\ instructions[k].directive.name \in {"Asciiz", "Integer", "Float"} }

LabelledConstants(instructions) ==
  { k \in DOMAIN instructions :
      /\ is_label(instructions[k])
      /\ instructions[k].directive.type = "Directive"
      /\ instructions[k].directive.name \in {"Asciiz", "Integer", "Float"} }

RecordedKinds == { asm.errors[k].kind : k \in DOMAIN asm.errors }

\* C15: a program with an .asciiz, .integer or .float directive that has no
\* label does not assemble: StringConstantDeclaredWithoutLabel is among the
\* recorded errors, and when no constant of the program has a label the
\* read-only blob stays empty
C15_UnlabelledConstantFails ==
  (asm_pc = "returned" /\ Converts /\ UnlabelledConstants(AssembledProgram) # {}) =>
    /\ ~asm_result.ok
    /\ "StringConstantDeclaredWithoutLabel" \in RecordedKinds
    /\ LabelledConstants(AssembledProgram) = {} => asm.ro = <<>>

\* the records whose directive is none of data, text, asciiz, integer, float
UnknownDirectives(instructions) ==
  { k \in DOMAIN instructions :
      /\ instructions[k].directive.type = "Directive"
      /\ instructions[k].directive.name \in {"Unknown", "Bss"} }

\* C16: a program with a directive other than data, code/text, asciiz,
\* integer or float does not assemble, and UnknownDirectiveFound is in the
\* error list assemble returns
C16_UnknownDirectiveFails ==
  (asm_pc = "returned" /\ Converts /\ UnknownDirectives(AssembledProgram) # {}) =>
    /\ ~asm_result.ok
    /\ \E k \in DOMAIN asm_result.value : asm_result.value[k].kind = "UnknownDirectiveFound"

\* the kinds of the sections a program declares, in source order
RECURSIVE SectionKinds(_)
SectionKinds(instructions) ==
  IF instructions = <<>> THEN <<>>
  ELSE IF /\ Head(instructions).directive.type = "Directive"
          /\ Head(instructions).directive.name \in {"Data", "Text"}
       THEN <<Head(instructions).directive.name>> \o SectionKinds(Tail(instructions))
       ELSE SectionKinds(Tail(instructions))

OneDataOneCode(kinds) == Len(kinds) = 2 /\ {kinds[1], kinds[2]} = {"Data", "Text"}

\* C17: a program whose section list is not one data section and one code
\* section does not assemble, and unless pass 1 recorded other errors the
\* error returned is InsufficientSections
C17_TwoSectionsRequired ==
  (asm_pc = "returned" /\ Converts /\ ~OneDataOneCode(SectionKinds(AssembledProgram))) =>
    /\ ~asm_result.ok
    /\ \/ \E k \in DOMAIN asm_result.value : asm_result.value[k].kind = "InsufficientSections"
       \/ \E k \in DOMAIN asm_result.value :
            asm_result.value[k].kind \in {"UnknownDirectiveFound", "NoSegmentDeclarationFound",
                                          "SymbolAlreadyDeclared"}

\* the assembler as pass 1 finds it when it comes to record k
BeforeRecord(k) == FirstPhaseLoop(AssemblerNew, SubSeq(AssembledProgram, 1, k - 1))

\* the records at which pass 1 adds a symbol of this name to the table
DeclaringRecords(name) ==
  { k \in DOMAIN AssembledProgram :
      /\ get_label_name(AssembledProgram[k]).some
      /\ get_label_name(AssembledProgram[k]).value = name
      /\ BeforeRecord(k).current_section.some }

Least(S) == CHOOSE k \in S : \A j \in S : k <= j

\* the offset a name is given when it is declared first
FirstOffset(name) ==
  symbol_value(process_label_declaration(BeforeRecord(Least(DeclaringRecords(name))),
                                         AssembledProgram[Least(DeclaringRecords(name))]).symbols,
               name)

\* C18: after an assembly every symbol holds the offset it was given first
C18_OffsetAssignedOnce ==
  (asm_pc = "returned" /\ run_pc = "unloaded" /\ Converts) =>
    \A i \in DOMAIN asm.symbols :
      symbol_value(asm.symbols, asm.symbols[i].name) = FirstOffset(asm.symbols[i].name)

\* C19: after pass 1 no two symbols of the table have the same name
C19_NamesAreUnique ==
  (asm_pc = "returned" /\ Converts) =>
    \A i, j \in DOMAIN asm.symbols : asm.symbols[i].name = asm.symbols[j].name => i = j

\* the errors pass 1 records at record k
ErrorsAtRecord(k) ==
  SubSeq(FirstPhaseBody(BeforeRecord(k), AssembledProgram[k]).errors,
         Len(BeforeRecord(k).errors) + 1,
         Len(FirstPhaseBody(BeforeRecord(k), AssembledProgram[k]).errors))

RECURSIVE ErrorsUpTo(_)
ErrorsUpTo(k) == IF k = 0 THEN <<>> ELSE ErrorsUpTo(k - 1) \o ErrorsAtRecord(k)

\* the errors of all the records of the program, in source order
ErrorsInSourceOrder == ErrorsUpTo(Len(AssembledProgram))

\* C20: when records of the program are in error, assemble returns Err with
\* the errors of all the records in source order; pass 1 has been through
\* every record (its counter is the number of records, and pass 2, which
\* starts by resetting the counter, has not run); the result carries the
\* errors and no bytes
C20_AllErrorsReturned ==
  (asm_pc = "returned" /\ run_pc = "unloaded" /\ Converts /\ ErrorsInSourceOrder # <<>>) =>
    /\ ~asm_result.ok
    /\ asm_result.value = ErrorsInSourceOrder
    /\ asm.errors = ErrorsInSourceOrder
    /\ asm.phase = "Second"
    /\ asm.current_instruction = Len(AssembledProgram)

\* `l:` before any section, then `.wrong`, then `.data`: two errors, and the
\* section after them is still declared
C20_Witness ==
  /\ asm_pc = "returned"
  /\ Converts
  /\ ~asm_result.ok
  /\ Len(asm_result.value) = 2
  /\ asm_result.value[1].kind = "NoSegmentDeclarationFound"
  /\ asm_result.value[2].kind = "UnknownDirectiveFound"
  /\ Len(asm.sections) = 1
  /\ asm.current_instruction = 4

\* the bytes a labelled constant declaration is to add to the blob: the
\* string 'Hi' and a NUL, or four bytes
DeclaredSize(instruction) ==
  IF instruction.directive.name = "Asciiz" THEN Len(<<72, 105>>) + 1 ELSE 4

RECURSIVE BlobLengthBefore(_)
BlobLengthBefore(k) ==
  IF k <= 1 THEN 0
  ELSE BlobLengthBefore(k - 1)
         + (IF (k - 1) \in LabelledConstants(AssembledProgram)
            THEN DeclaredSize(AssembledProgram[k - 1]) ELSE 0)

\* C22: after a pass 1 without errors every labelled constant's label holds
\* the length the blob had before its declaration, each declaration having
\* added its bytes, and ro_offset is the length of the blob
C22_ConstantsBackToBack ==
  (asm_pc = "returned" /\ run_pc = "unloaded" /\ Converts /\ AfterFirstPhase.errors = <<>>) =>
    /\ \A k \in LabelledConstants(AssembledProgram) :
         symbol_value(AfterFirstPhase.symbols, AssembledProgram[k].label.name)
           = Some(BlobLengthBefore(k))
    /\ AfterFirstPhase.ro_offset = BlobLengthBefore(Len(AssembledProgram) + 1)
    /\ Len(AfterFirstPhase.ro) = AfterFirstPhase.ro_offset

\* the catalog size of an operand: a register is one byte, an integer, a
\* float and an address are four
OperandSize(token) ==
  CASE token.type = "Register" -> 1
    [] token.type \in {"IntegerOperand", "FloatOperand", "LabelUsage"} -> 4
    [] OTHER -> 0

EncodedSize(instruction) ==
  1 + OperandSize(instruction.operand_1) + OperandSize(instruction.operand_2)
    + OperandSize(instruction.operand_3)

RECURSIVE SumOfSizes(_)
SumOfSizes(instructions) ==
  IF instructions = <<>> THEN 0
  ELSE (IF is_opcode(Head(instructions)) /\ ~is_directive(Head(instructions))
        THEN EncodedSize(Head(instructions)) ELSE 0) + SumOfSizes(Tail(instructions))

\* C23: in an assembled program every instruction with an opcode is emitted
\* as its opcode byte and its operands at their sizes, 1 + the operand
\* sizes in all, and the code of the container is these encodings and
\* nothing else
C23_EncodedSizeIsOnePlusOperands ==
  (Assembled /\ run_pc = "unloaded") =>
    /\ \A k \in DOMAIN AssembledProgram :
         is_opcode(AssembledProgram[k]) =>
           /\ Len(to_bytes(AssembledProgram[k], asm.symbols)) = EncodedSize(AssembledProgram[k])
           /\ to_bytes(AssembledProgram[k], asm.symbols)[1]
                = U8FromOpcode(AssembledProgram[k].opcode.name)
    /\ Len(asm_result.value) = CodeStartOf(asm_result.value) + SumOfSizes(AssembledProgram)

\* the mnemonics of the instructions of a program that pass 2 emits
RECURSIVE MnemonicsOf(_)
MnemonicsOf(instructions) ==
  IF instructions = <<>> THEN <<>>
  ELSE (IF is_opcode(Head(instructions)) /\ ~is_directive(Head(instructions))
        THEN <<Head(instructions).opcode.name>> ELSE <<>>) \o MnemonicsOf(Tail(instructions))

SymbolsOf(lines) == [k \in DOMAIN lines |-> lines[k].str_symbol]

\* C25: the listing of an assembled container has one line for every
\* instruction of the program, in source order and with its mnemonic
C25_ListingHasTheOpcodesOfTheProgram ==
  (Assembled /\ run_pc = "unloaded") =>
    /\ disassemble(asm_result.value).ok
    /\ SymbolsOf(disassemble(asm_result.value).value) = MnemonicsOf(AssembledProgram)

\* the records of the program that declare a label, outside every section
\* and inside one
LabelRecords == {k \in DOMAIN AssembledProgram : is_label(AssembledProgram[k])}
LabelsOutside == {k \in LabelRecords : ~BeforeRecord(k).current_section.some}
LabelsInside == LabelRecords \ LabelsOutside

NoSegmentErrors(errors) ==
  {i \in DOMAIN errors : errors[i].kind = "NoSegmentDeclarationFound"}

\* C32: at a record that declares a label before any section, pass 1 records
\* exactly one NoSegmentDeclarationFound error, with the index of the record,
\* and leaves the symbol table as it was; at a record that declares a label
\* inside a section it records no such error; so the errors of this kind
\* that assemble leaves are as many as the labels outside sections
C32_LabelOutsideSectionIsAnError ==
  (asm_pc = "returned" /\ run_pc = "unloaded" /\ Converts) =>
    /\ \A k \in LabelsOutside :
         /\ Cardinality(NoSegmentErrors(ErrorsAtRecord(k))) = 1
         /\ \A i \in NoSegmentErrors(ErrorsAtRecord(k)) :
              ErrorsAtRecord(k)[i].instruction = k - 1
         /\ FirstPhaseBody(BeforeRecord(k), AssembledProgram[k]).symbols
              = BeforeRecord(k).symbols
    /\ \A k \in LabelsInside : NoSegmentErrors(ErrorsAtRecord(k)) = {}
    /\ Cardinality(NoSegmentErrors(asm.errors)) = Cardinality(LabelsOutside)

\* a label before the first section and a label inside it
C32_Witness ==
  /\ asm_pc = "returned"
  /\ Converts
  /\ LabelsOutside # {}
  /\ LabelsInside # {}
  /\ Cardinality(NoSegmentErrors(asm.errors)) = 1

\* the last call was a RET that returned from a CALL fetched at an emitted
\* instruction, with as many values on the stack as the CALL left there
ReturnedFromCall ==
  /\ hist.n > 0
  /\ hist.opcode = "RET"
  /\ hist.matched # <<>>
  /\ hist.matched[1].pc \in EmittedStarts
  /\ Len(hist.pre.stack) = Len(hist.matched[1].stack) + 2

\* C33: a RET that matches a CALL of the assembled code, the stack between
\* them balanced, continues at the first byte of the instruction emitted
\* after the CALL, with bp, sp and the stack as they were before the CALL
C33_ReturnResumesAfterCall ==
  (Assembled /\ ReturnedFromCall) =>
    /\ vm.pc = hist.matched[1].pc + Len(EmittedAt(hist.matched[1].pc).bytes)
    /\ vm.bp = hist.matched[1].bp
    /\ vm.sp = hist.matched[1].sp
    /\ vm.stack = hist.matched[1].stack

----------------------------------------------------------------------------
(* Properties of the disassembler *)

\* the 0-based offset of the first opcode of a container
FirstOpcodeAt(bytecode) ==
  LUMI_HEADER_LENGTH + 1 + 4
    + LEToU32(SubSeq(bytecode, LUMI_HEADER_LENGTH + 2, LUMI_HEADER_LENGTH + 1 + 4))

\* C26: for a container whose first opcode byte is not the code of an opcode
\* of the catalog, disassemble returns an error that names this offset, and
\* no listing
C26_UnknownOpcodeIsAnError ==
  (/\ run_pc = "idle"
   /\ Len(vm.program) >= LUMI_HEADER_LENGTH + 5
   /\ FirstOpcodeAt(vm.program) < Len(vm.program)
   /\ vm.program[FirstOpcodeAt(vm.program) + 1] \notin CatalogBytes) =>
    /\ ~disassemble(vm.program).ok
    /\ disassemble(vm.program).value.at = FirstOpcodeAt(vm.program)

----------------------------------------------------------------------------
(* Properties of the legacy assembler *)

RejectedLines == { k \in DOMAIN source : ~source[k].parses }

\* C21: a text with a line the parsers reject is answered by Err with a
\* ParseError, never by a container
C21_RejectedTextIsParseError ==
  (asm_pc = "returned" /\ RejectedLines # {}) =>
    /\ ~asm_result.ok
    /\ \E k \in DOMAIN asm_result.value : asm_result.value[k].kind = "ParseError"

\* the program the legacy assembler is working on, and its opcode-bearing
\* instructions
LegacyProgram == parse_program(source).value.program
OpcodeBearing(instructions) == SelectSeq(instructions, is_opcode)

\* C24: an assembled container is 69 bytes, the read-only blob, and 4 bytes
\* for every instruction with an opcode
C24_FourBytesPerInstruction ==
  (asm_pc = "returned" /\ asm_result.ok) =>
    Len(asm_result.value)
      = 69 + Len(legacy_process_first_phase(AssemblerNew, LegacyProgram).ro)
           + 4 * Len(OpcodeBearing(LegacyProgram))
----------------------------------------------------------------------------
(* Properties of the watched variables *)

\* the value a watched key has in a machine, before any conversion
WatchedValue(v, key) ==
  CASE key[1] = "Memory" -> v.heap[key[2] + 1]
    [] key[1] = "Register" -> v.registers[key[2]]
    [] OTHER -> v.float_registers[key[2]]

\* the last execute_instruction call logged a change of the key
LoggedNow(key) ==
  /\ Len(vm.watch_log) = Len(hist.pre.watch_log) + 1
  /\ key \in vm.watch_log[Len(vm.watch_log)]

\* C27: an execute_instruction call logs a change of a watched key exactly
\* when the key's value at the start of the call differs from its value at
\* the start of the call before it (the first call of a run logs nothing);
\* this covers the call that follows the last instruction executed
C27_ChangeLoggedExactlyWhenValueDiffers ==
  (hist.n > 0 /\ hist.status.kind # "Panic") =>
    \A key \in DOMAIN hist.pre.watch_variables :
      LoggedNow(key) <=>
        (hist.n > 1 /\ WatchedValue(hist.pre, key) # WatchedValue(hist.prev, key))

----------------------------------------------------------------------------
(* Properties of integer arithmetic *)

\* the machine as the handler of the last call found it: pc on the first
\* operand byte
AtOperands == Adv(hist.pre, 1)

\* the last call ran the handler of a three-register instruction `op` on
\* three register numbers
Executed3(op) ==
  /\ hist.n > 0
  /\ hist.opcode = op
  /\ HasBytes(AtOperands, 3)
  /\ \A k \in 0..2 : IsReg(At(AtOperands, k))

Left == Reg1(AtOperands)
Right == Reg2(AtOperands)
Destination == At(AtOperands, 2)

\* C28: DIV reg_a, reg_b, reg_c with a non-zero divisor continues with the
\* truncated quotient in registers[c] and the absolute value of the
\* remainder of registers[a] by registers[b] in `remainder`
C28_DivQuotientAndAbsoluteRemainder ==
  (Executed3("DIV") /\ Right # 0) =>
    /\ hist.status = Continue
    /\ vm.registers[Destination] = TruncDiv(Left, Right)
    /\ vm.remainder = I32AsU32(Abs(TruncRem(Left, Right)))

\* the exact result of the last call's ADD, SUB or MUL is outside the i32
\* range
Overflowed ==
  \/ Executed3("ADD") /\ AddOverflows(Left, Right)
  \/ Executed3("SUB") /\ SubOverflows(Left, Right)
  \/ Executed3("MUL") /\ MulOverflows(Left, Right)

Wrapped ==
  CASE hist.opcode = "ADD" -> WrappingAdd(Left, Right)
    [] hist.opcode = "SUB" -> WrappingSub(Left, Right)
    [] OTHER -> WrappingMul(Left, Right)

\* C29: an ADD, SUB or MUL whose exact result is outside the i32 range
\* continues, with the result modulo 2^32 in the destination register
C29_OverflowWraps ==
  Overflowed =>
    /\ hist.status = Continue
    /\ run_pc = "loop"
    /\ vm.registers[Destination] = Wrapped

----------------------------------------------------------------------------
(* Properties of the heap *)

\* the last call ran the handler of ALOC on a register number
ExecutedAloc ==
  /\ hist.n > 0
  /\ hist.opcode = "ALOC"
  /\ HasBytes(AtOperands, 3)
  /\ IsReg(At(AtOperands, 0))

AllocatedBytes == hist.pre.registers[At(AtOperands, 0)]

\* the heap after the last call begins with the heap before it
HeapKept ==
  /\ Len(vm.heap) >= Len(hist.pre.heap)
  /\ SubSeq(vm.heap, 1, Len(hist.pre.heap)) = hist.pre.heap

\* C30: no instruction but SETM changes or drops a byte of the heap, and
\* ALOC reg, whatever registers[reg] holds, continues with registers[reg]
\* zero bytes added at the end of the heap
C30_HeapOnlyGrows ==
  /\ (hist.n > 0 /\ hist.opcode # "SETM") => HeapKept
  /\ Len(vm.heap) >= Len(hist.pre.heap)
  /\ ExecutedAloc =>
       /\ hist.status = Continue
       /\ Len(vm.heap) = Len(hist.pre.heap) + AllocatedBytes
       /\ \A i \in (Len(hist.pre.heap) + 1)..Len(vm.heap) : vm.heap[i] = 0

----------------------------------------------------------------------------
(* Properties of the catalog *)

\* the opcode a byte or a name stands for: the opcode with this byte code,
\* the opcode with this mnemonic in some letter case, and IGL for all else
Denoted(input) ==
  IF input.kind = "byte"
  THEN (IF input.value \in CatalogBytes
        THEN OPCODE_METADATA[CHOOSE i \in DOMAIN OPCODE_METADATA :
                               OPCODE_METADATA[i][2] = input.value][1]
        ELSE "IGL")
  ELSE (IF to_uppercase(input.value) \in Opcodes THEN to_uppercase(input.value)
        ELSE "IGL")

CodesAndNamesDistinct ==
  \A i, j \in DOMAIN OPCODE_METADATA :
    i # j => /\ OPCODE_METADATA[i][1] # OPCODE_METADATA[j][1]
             /\ OPCODE_METADATA[i][2] # OPCODE_METADATA[j][2]

\* C31: the lookup of the byte code or of the mnemonic (in any letter case)
\* of an opcode returns that opcode, in the current and in the legacy
\* catalog; byte codes and mnemonics are pairwise distinct; every other
\* byte or name gives IGL
C31_LookupsInvertTheCatalog ==
  asm_pc = "looked" =>
    /\ asm_result.current = Denoted(source)
    /\ asm_result.legacy = Denoted(source)
    /\ CodesAndNamesDistinct

----------------------------------------------------------------------------
(* Properties of the loop counter *)

\* the last call was a LOOP that found the counter at zero, in a loop whose
\* LOOPs were all this one and all went back to the start of the body
LoopFellThrough ==
  /\ hist.n > 0
  /\ hist.opcode = "LOOP"
  /\ hist.status = Continue
  /\ hist.pre.loop_counter = 0
  /\ hist.loop.some
  /\ hist.loop.same
  /\ hist.loop.done

\* C34: the body between a CLOOP n and its LOOP is run n + 1 times, then
\* the LOOP falls through to the instruction after it with the counter at
\* zero; only a taken LOOP lowers the counter, by one and never below zero,
\* and only CLOOP sets it, so a loop takes its LOOP at most n times
C34_LoopRunsBodyOnceMoreThanCount ==
  /\ vm.loop_counter >= 0
  /\ (hist.n > 0 /\ hist.status = Continue /\ hist.opcode = "LOOP") =>
        IF hist.pre.loop_counter # 0
        THEN /\ vm.loop_counter = hist.pre.loop_counter - 1
             /\ vm.pc = U16At(AtOperands, 0)
        ELSE /\ vm.loop_counter = 0
             /\ vm.pc = hist.pre.pc + 4
  /\ (hist.n > 0 /\ hist.opcode \notin {"LOOP", "CLOOP"}) =>
        vm.loop_counter = hist.pre.loop_counter
  /\ (hist.loop.some /\ hist.loop.same) =>
        /\ hist.loop.runs <= hist.loop.n + 1
        /\ vm.loop_counter = IF hist.loop.runs <= hist.loop.n
                             THEN hist.loop.n - hist.loop.runs ELSE 0
  /\ LoopFellThrough =>
        /\ hist.loop.runs = hist.loop.n + 1
        /\ vm.loop_counter = 0
        /\ vm.pc = hist.pre.pc + 4

\* a CLOOP 1 whose LOOP has fallen through after an INC run twice
C34_Witness ==
  /\ LoopFellThrough
  /\ hist.loop.n = 1
  /\ hist.loop.runs = 2
  /\ "INC" \in hist.executed
  /\ vm.registers[0] = 2

----------------------------------------------------------------------------
(* Properties of stores and loads *)

\* the last two calls were a SETM and a LOADM that name the same offset
\* register, whose value leaves room for four bytes in the heap the SETM
\* found; StoredAt and LoadedAt are the two machines at their operands
StoredAt == Adv(hist.prev, 1)
LoadedAt == Adv(hist.pre, 1)
StoredThenLoaded ==
  /\ hist.n >= 2
  /\ hist.opcode = "LOADM"
  /\ hist.status = Continue
  /\ ~UsizeGe(hist.prev.pc, Len(hist.prev.program))
  /\ OpcodeFromU8(At(hist.prev, 0)) = "SETM"
  /\ At(StoredAt, 0) = At(LoadedAt, 0)
  /\ hist.prev.registers[At(StoredAt, 0)] >= 0
  /\ hist.prev.registers[At(StoredAt, 0)] + 4 <= Len(hist.prev.heap)

\* C35: a SETM at an offset that leaves room for four bytes, followed by a
\* LOADM at the same offset, loads the stored register's value; the SETM
\* changes the four bytes at the offset and nothing else of the heap, whose
\* length stays the same
C35_StoreThenLoadRoundTrip ==
  StoredThenLoaded =>
    LET offset == hist.prev.registers[At(StoredAt, 0)]
    IN /\ vm.registers[At(LoadedAt, 1)] = hist.prev.registers[At(StoredAt, 1)]
       /\ Len(hist.pre.heap) = Len(hist.prev.heap)
       /\ \A i \in 1..Len(hist.prev.heap) :
            hist.pre.heap[i] = IF i - offset \in 1..4
                               THEN I32ToLE(hist.prev.registers[At(StoredAt, 1)])[i - offset]
                               ELSE hist.prev.heap[i]

----------------------------------------------------------------------------
(* Properties of the conditional jump *)

\* the last call was a JMPE that returned Continue
JumpedIfEqual ==
  /\ hist.n > 0
  /\ hist.opcode = "JMPE"
  /\ hist.status = Continue

\* C36: a JMPE met with equal_flag set leaves pc at the value of its
\* register; met with the flag clear it leaves pc four bytes after its
\* opcode; either way the flag and the registers stay as they were
C36_JumpIfEqualTargetsRegister ==
  JumpedIfEqual =>
    /\ vm.pc = IF hist.pre.equal_flag THEN hist.pre.registers[At(AtOperands, 0)]
               ELSE hist.pre.pc + 4
    /\ vm.equal_flag = hist.pre.equal_flag
    /\ vm.registers = hist.pre.registers

----------------------------------------------------------------------------
(* Properties of the frame of arithmetic and comparison *)

ArithmeticOpcodes == {"ADD", "SUB", "MUL"}
ComparisonOpcodes == {"EQ", "NEQ", "GT", "LT", "GTE", "LTE"}

\* the last call was the given kind of instruction and returned Continue
Completed(opcodes) ==
  /\ hist.n > 0
  /\ hist.opcode \in opcodes
  /\ hist.status = Continue

\* the signed comparison an opcode makes of two values
Compared(opcode, a, b) ==
  CASE opcode = "EQ" -> a = b
    [] opcode = "NEQ" -> a # b
    [] opcode = "GT" -> a > b
    [] opcode = "LT" -> a < b
    [] opcode = "GTE" -> a >= b
    [] opcode = "LTE" -> a <= b

\* C37: an ADD, SUB or MUL changes its destination register and pc, a
\* comparison changes equal_flag, to the signed comparison of its two
\* registers, and pc; pc ends four bytes after the opcode, and every other
\* register, the flag of an arithmetic instruction, the heap, the stack,
\* sp, bp and loop_counter stay as they were
C37_ArithmeticAndComparisonFrame ==
  /\ Completed(ArithmeticOpcodes \cup ComparisonOpcodes) =>
       /\ vm.pc = hist.pre.pc + 4
       /\ vm.heap = hist.pre.heap
       /\ vm.stack = hist.pre.stack
       /\ vm.sp = hist.pre.sp
       /\ vm.bp = hist.pre.bp
       /\ vm.loop_counter = hist.pre.loop_counter
  /\ Completed(ArithmeticOpcodes) =>
       /\ vm.equal_flag = hist.pre.equal_flag
       /\ \A r \in (0..(REGISTER_COUNT - 1)) \ {Destination} :
            vm.registers[r] = hist.pre.registers[r]
  /\ Completed(ComparisonOpcodes) =>
       /\ vm.registers = hist.pre.registers
       /\ vm.equal_flag = Compared(hist.opcode, Reg1(AtOperands), Reg2(AtOperands))

\* an ADD of -7 and 7 into the register of the -7, after an LT of the two
\* that set the flag
C37_Witness ==
  /\ Completed({"ADD"})
  /\ Destination = At(AtOperands, 0)
  /\ Reg1(AtOperands) = -7
  /\ vm.registers[Destination] = 0
  /\ "LT" \in hist.executed
  /\ vm.equal_flag

----------------------------------------------------------------------------
(* Properties of the debugger prompt *)

\* the state is the one a call of execute_instruction left, no prompt since
AfterInstruction == hist.n > 0 /\ hist.answer = "none"

\* C38: in the legacy run() the prompt is entered after a BKPT and, in step
\* mode, after every instruction that returns Continue; out of step mode
\* it is entered after a BKPT only; step mode begins with the answer `s`
\* and ends with `c` or a registered watch; a Done ends the run with no
\* further prompt
C38_PromptFollowsBreakpointAndSteps ==
  /\ (AfterInstruction /\ hist.status = BreakpointHit) =>
       (run_pc = "prompt" /\ hist.opcode = "BKPT")
  /\ (AfterInstruction /\ hist.status = Continue) =>
       run_pc = (IF hist.stepping THEN "prompt" ELSE "loop")
  /\ run_pc = "prompt" =>
       (AfterInstruction /\ (hist.status = BreakpointHit
                               \/ (hist.status = Continue /\ in_step_mode)))
  /\ (AfterInstruction /\ hist.opcode = "BKPT" /\ hist.status.kind # "Panic") =>
       run_pc = "prompt"
  /\ (run_pc = "loop" /\ hist.answer # "none") => (in_step_mode <=> hist.answer = "s")
  /\ (run_pc = "loop" /\ hist.answer = "none") => ~in_step_mode
  /\ hist.n > 0 => (hist.stepping => in_step_mode \/ hist.answer \in {"c", "w"})
  /\ hist.status.kind = "Done" => (run_pc = "returned" /\ is_done.some)

\* the prompt entered in step mode after an INC that followed a BKPT
C38_Witness ==
  /\ run_pc = "prompt"
  /\ in_step_mode
  /\ hist.opcode = "INC"
  /\ hist.status = Continue
  /\ "BKPT" \in hist.executed

----------------------------------------------------------------------------
(* Properties of the end of a run *)

\* the container has the magic number and a read-only blob the buffer holds
ValidHeader ==
  /\ Len(vm.program) >= 4
  /\ SubSeq(vm.program, 1, 4) = LUMI_HEADER_PREFIX
  /\ CanReadRoData(vm.program)

\* C39: on a container with a valid header no instruction makes run()
\* abort: the run is under way or has returned its log, which ends in a
\* terminal event
C39_RunNeverAborts ==
  ValidHeader =>
    /\ run_pc # "panicked"
    /\ run_pc = "returned" =>
         /\ returned # <<>>
         /\ returned[Len(returned)].event_type \in {"GracefulShutdown", "Crash"}

\* the run has aborted in the handler of the opcode
AbortedOn(opcode) ==
  /\ ValidHeader
  /\ run_pc = "panicked"
  /\ hist.n > 0
  /\ hist.opcode = opcode

----------------------------------------------------------------------------
(* Properties of a repeated assembly *)

\* C40: a second call of assemble on the same Assembler, with a source the
\* first call assembled, returns the container the first call returned
C40_AssembleIsRepeatable ==
  (asm_pc = "repeated" /\ asm_result.ok) =>
    (asm_again.ok /\ asm_again.value = asm_result.value)

\* what the second call returns for every source the first call assembled:
\* the errors of an assembler that finds its labels declared already, or
\* that counts four sections
SecondCallFails ==
  (asm_pc = "repeated" /\ asm_result.ok) =>
    /\ ~asm_again.ok
    /\ Len(asm.sections) = 4
    /\ \A i \in DOMAIN asm_again.value :
         asm_again.value[i].kind \in {"SymbolAlreadyDeclared", "InsufficientSections"}

====
